---- MODULE Spec2Model ----
(***************************************************************************)
(* A model of motion/operations/reduce.py: ReduceOperation.execute, its    *)
(* three reduction strategies (batch, incremental fold, parallel fold and  *)
(* merge), the telemetry windows and the lane estimate.                    *)
(*                                                                         *)
(* The language model, the template renderer and the schema validator are  *)
(* external: a model call is a step whose outcome (the output passes       *)
(* validation or not) is chosen nondeterministically.  Every accumulator   *)
(* carries, beside its fields, a history: the bag of input records that    *)
(* went into it and the lane whose task produced it.                       *)
(***************************************************************************)
EXTENDS Integers, Sequences, FiniteSets, Bags, TLC

\* ---------------------------------------------------------------- bounds
MaxRecords == 4        \* records in one input list
MaxKey == 2            \* reduce-key values are 1..MaxKey
MaxFoldBatch == 2      \* fold_batch_size is 1..MaxFoldBatch
MaxMergeBatch == 3     \* merge_batch_size is 1..MaxMergeBatch
MaxOverride == 1       \* fold_time / merge_time overrides are 0..MaxOverride
MaxThreads == 2        \* self.max_threads, the width of both worker pools
MaxAccs == 6           \* lane accumulators at the start of a final merge
MaxLockThreads == 2    \* threads of the lock-level view
MaxLockSamples == 1    \* samples the lock-level view lets a window grow by
MaxPoolGroups == 3     \* groups of the execution the worker pools are studied on
MaxIncrRecords == 7    \* records of the group the incremental fold is studied on
MaxIncrBatch == 3      \* its fold_batch_size is 1..MaxIncrBatch

\* ------------------------------------------------------ program constants
min_samples == 5
max_samples == 1000
DefaultTime == 1       \* the placeholder "1.0 second"

Absent == 0 - 1        \* a configuration key that is not present
None == <<>>           \* Python's None, for an optional record

\* ------------------------------------------------------------- utilities
Max2(a, b) == IF a >= b THEN a ELSE b
Min2(a, b) == IF a <= b THEN a ELSE b
CeilDiv(a, b) == (a + b - 1) \div b
\* a variant that takes one element more
TakeOneMore(s, n) == SubSeq(s, 1, Min2(n + 1, Len(s)))
\* s[:n]
Take(s, n) == SubSeq(s, 1, Min2(n, Len(s)))
Drop(s, n) == SubSeq(s, Min2(n, Len(s)) + 1, Len(s))
RECURSIVE SumRange(_, _, _)
\* s[lo] + .. + s[hi], by halves (a window holds up to max_samples samples)
SumRange(s, lo, hi) ==
    IF lo > hi THEN 0
    ELSE IF lo = hi THEN s[lo]
    ELSE SumRange(s, lo, (lo + hi) \div 2) + SumRange(s, ((lo + hi) \div 2) + 1, hi)
\* sum(s)
SumSeq(s) == SumRange(s, 1, Len(s))
RECURSIVE Chunks(_, _)
\* s[i : i + n] for i in range(0, len(s), n)
Chunks(s, n) == IF s = <<>> THEN <<>> ELSE <<Take(s, n)>> \o Chunks(Drop(s, n), n)
Range(s) == {s[i] : i \in DOMAIN s}

\* ---------------------------------------------------------------- fields
RK == "k"              \* config["reduce_key"]: the field grouped by
OutField == "out"      \* the one field of config["output"]["schema"]
XField == "x"          \* an input field outside the output schema
OutputSchema == {OutField}
LLMValue == 100 + MaxRecords   \* the value the model writes into a field

\* a dict with key f set to v (d[f] = v)
SetField(d, f, v) == [g \in (DOMAIN d) \cup {f} |-> IF g = f THEN v ELSE d[g]]
\* {k: item[k] for k in schema if k in item}
Project(item, schema) == [f \in (DOMAIN item) \cap schema |-> item[f]]

\* ---------------------------------------------------------- configuration
\* A configuration: the keys the reduce operation reads.  Optional numeric
\* keys are Absent when missing; input_schema = {} when not configured.
RawConfigs ==
    [ merge_prompt : BOOLEAN, fold_prompt : BOOLEAN,
      fold_batch_size : {Absent} \cup (0 .. MaxFoldBatch),
      merge_batch_size : {Absent} \cup (0 .. MaxMergeBatch),
      fold_time : {Absent} \cup (0 .. MaxOverride),
      merge_time : {Absent} \cup (0 .. MaxOverride),
      pass_through : BOOLEAN,
      input_schema : {{}, {RK}, {XField}},
      gleaning : BOOLEAN ]

\* a variant without the test of lines 164-168
syntax_check_no_positive_test(c) ==
    /\ (c.merge_prompt => c.fold_prompt)
    /\ (c.fold_prompt => c.fold_batch_size # Absent)
    /\ (c.merge_prompt => c.merge_batch_size # Absent)
\* syntax_check: TRUE when no ValueError / TypeError is raised.  The prompt
\* templates, the output schema and the model name are taken as well-formed.
syntax_check(c) ==
    /\ (c.merge_prompt => c.fold_prompt)
    /\ (c.fold_prompt => c.fold_batch_size # Absent)
    /\ (c.merge_prompt => c.merge_batch_size # Absent)
    /\ (c.fold_batch_size # Absent => c.fold_batch_size > 0)
    /\ (c.merge_batch_size # Absent => c.merge_batch_size > 0)

\* configurations an operation is built with: accepted by syntax_check, and
\* without keys the selected strategy never reads
Configs ==
    { c \in RawConfigs :
        /\ syntax_check(c)
        /\ (c.fold_batch_size # Absent <=> c.fold_prompt)
        /\ (c.merge_batch_size # Absent <=> c.merge_prompt)
        /\ (c.fold_time # Absent => c.merge_prompt)
        /\ (c.merge_time # Absent => c.merge_prompt) }
\* no pass-through, no input projection, no gleaning
PlainRecords(c) == ~c.pass_through /\ c.input_schema = {} /\ ~c.gleaning
\* no telemetry override
NoOverride(c) == c.fold_time = Absent /\ c.merge_time = Absent

\* --------------------------------------------------------------- grouping
\* the input record at position i of a list of keys: {"k": key, "x": i}
MkRecord(key, i) == [f \in {RK, XField} |-> IF f = RK THEN key ELSE i]
MkInput(keys) == [i \in DOMAIN keys |-> [id |-> i, rec |-> MkRecord(keys[i], i)]]
\* every list of up to MaxRecords such records
AllInputLists == UNION { { MkInput(ks) : ks \in [1 .. n -> 1 .. MaxKey] } : n \in 1 .. MaxRecords }
\* the lists execute() is run on: one key throughout (one group), or the keys
\* in descending cycles MaxKey, .., 1, MaxKey, .. (unsorted, several groups)
KeyPatterns(n) ==
    { [i \in 1 .. n |-> k] : k \in 1 .. MaxKey } \cup { [i \in 1 .. n |-> MaxKey - ((i - 1) % MaxKey)] }
InputLists == UNION { { MkInput(ks) : ks \in KeyPatterns(n) } : n \in 1 .. MaxRecords }

RECURSIVE InsertSorted(_, _)
\* stable insertion: e goes behind every element whose key is <= its own
InsertSorted(s, e) ==
    IF s = <<>> THEN <<e>>
    ELSE IF Head(s).rec[RK] <= e.rec[RK] THEN <<Head(s)>> \o InsertSorted(Tail(s), e)
    ELSE <<e>> \o s
\* a variant that leaves the list as it came
SortByKeyUnsorted(s) == s
RECURSIVE SortByKey(_)
\* sorted(input_data, key=itemgetter(reduce_key)): a stable sort
SortByKey(s) ==
    IF s = <<>> THEN <<>>
    ELSE InsertSorted(SortByKey(SubSeq(s, 1, Len(s) - 1)), s[Len(s)])
RECURSIVE GroupBy(_)
\* itertools.groupby on the key: runs of adjacent elements with equal keys
GroupBy(s) ==
    IF s = <<>> THEN <<>>
    ELSE LET k == Head(s).rec[RK]
             RECURSIVE RunLen(_)
             RunLen(t) == IF t # <<>> /\ Head(t).rec[RK] = k THEN 1 + RunLen(Tail(t)) ELSE 0
             n == RunLen(s)
         IN <<[key |-> k, items |-> SubSeq(s, 1, n)]>> \o GroupBy(SubSeq(s, n + 1, Len(s)))
\* grouped_data of execute()
GroupedData(data) == GroupBy(SortByKey(data))

\* -------------------------------------------------------------- telemetry
\* a variant that makes room by dropping the newest sample
DequeAppendDropsNewest(q, x) ==
    IF Len(q) >= max_samples THEN SubSeq(q, 1, Len(q) - 1) \o <<x>> ELSE Append(q, x)
\* a variant that starts the window anew once it holds min_samples samples
DequeAppendStartsAnew(q, x) == IF Len(q) >= min_samples THEN <<x>> ELSE Append(q, x)
\* deque(maxlen=max_samples).append
DequeAppend(q, x) == IF Len(q) >= max_samples THEN Tail(q) \o <<x>> ELSE Append(q, x)
\* a variant that prefers the measured mean to the configured fold_time
get_fold_time_window_first(c, ft) ==
    IF Len(ft) >= min_samples THEN [num |-> SumSeq(ft), den |-> Len(ft), default |-> FALSE]
    ELSE IF c.fold_time # Absent THEN [num |-> c.fold_time, den |-> 1, default |-> FALSE]
    ELSE [num |-> DefaultTime, den |-> 1, default |-> TRUE]
\* a variant that needs more than min_samples samples
get_merge_time_above_threshold(c, mt) ==
    IF c.merge_time # Absent THEN [num |-> c.merge_time, den |-> 1, default |-> FALSE]
    ELSE IF Len(mt) > min_samples THEN [num |-> SumSeq(mt), den |-> Len(mt), default |-> FALSE]
    ELSE [num |-> DefaultTime, den |-> 1, default |-> TRUE]
\* a time in seconds as the fraction num/den, with the "default was used" flag
get_fold_time(c, ft) ==
    IF c.fold_time # Absent THEN [num |-> c.fold_time, den |-> 1, default |-> FALSE]
    ELSE IF Len(ft) >= min_samples THEN [num |-> SumSeq(ft), den |-> Len(ft), default |-> FALSE]
    ELSE [num |-> DefaultTime, den |-> 1, default |-> TRUE]
get_merge_time(c, mt) ==
    IF c.merge_time # Absent THEN [num |-> c.merge_time, den |-> 1, default |-> FALSE]
    ELSE IF Len(mt) >= min_samples THEN [num |-> SumSeq(mt), den |-> Len(mt), default |-> FALSE]
    ELSE [num |-> DefaultTime, den |-> 1, default |-> TRUE]

\* math.log(n) in units of 1/LnScale, for the batch sizes within the bounds
LnScale == 10000
LnScaled(n) ==
    CASE n = 1 -> 0 [] n = 2 -> 6931 [] n = 3 -> 10986 [] n = 4 -> 13863
      [] n = 5 -> 16094 [] OTHER -> 17918
\* a variant that returns the quotient as it is, without the floor of one lane
calculate_num_parallel_folds_unclamped(c, n, f, m) ==
    LET top == f.num * m.den * n * LnScaled(c.merge_batch_size)
        bottom == f.den * c.fold_batch_size * m.num * LnScale
    IN IF bottom = 0
       THEN [raised |-> TRUE, lanes |-> 0, used_default |-> FALSE]
       ELSE [raised |-> FALSE, lanes |-> top \div bottom,
             used_default |-> f.default \/ m.default]
\* calculate_num_parallel_folds, lines 272-282, on the value f that
\* get_fold_time gave (line 270) and the value m that get_merge_time gave
\* (line 271): raised is TRUE when the division by fold_batch_size *
\* merge_time raises ZeroDivisionError
calculate_num_parallel_folds(c, n, f, m) ==
    LET top == f.num * m.den * n * LnScaled(c.merge_batch_size)
        bottom == f.den * c.fold_batch_size * m.num * LnScale
    IN IF bottom = 0
       THEN [raised |-> TRUE, lanes |-> 0, used_default |-> FALSE]
       ELSE [raised |-> FALSE, lanes |-> Max2(1, top \div bottom),
             used_default |-> f.default \/ m.default]

\* ------------------------------------------------------- external services
\* what the model's response carries beside the schema's fields
LLMExtras == {{}, {RK, XField}}
\* durations measured around a fold call and a merge call (time.time() differences)
FoldDurations == {3}
MergeDurations == {1}
\* samples earlier executions of the operation instance left in each window
PriorSamples == {0, min_samples - 1, min_samples}
\* completion_cost(response): grows with the prompt (n records or accumulators)
CallCost(n) == 1 + n

\* ------------------------------------------------------------------ state
VARIABLES
    input_data,    \* execute(): the list it is called with
    config,        \* self.config
    llm_extra,     \* the fields the model adds to its responses
    fold_times,    \* self.fold_times
    merge_times,   \* self.merge_times
    exec_pc,       \* execute(): "idle", "running", "returned" or "raised"
    grouped_data,  \* execute(): the (key, group) pairs
    grp,           \* one process_group task per group: its locals
    results,       \* execute(): results
    total_cost,    \* execute(): total_cost
    spent,         \* history: the cost of every model call made so far
    lock,          \* self.lock: 0 when free, else the thread that holds it
    thr            \* the threads of the lock-level view: the call each is in

opvars == <<input_data, config, llm_extra, fold_times, merge_times, exec_pc, grouped_data, grp,
            results, total_cost, spent>>
lockvars == <<lock, thr>>
vars == <<opvars, lockvars>>

NG == Len(grouped_data)
Groups == 1 .. NG

\* a variant that forgets to write the reduce key into the output
LLMOutputKeyNotInjected(key) == [f \in OutputSchema \cup llm_extra |-> LLMValue]
\* parse_llm_response(response)[0] with output[reduce_key] = key
LLMOutput(key) ==
    SetField([f \in OutputSchema \cup llm_extra |-> LLMValue], RK, key)
\* an accumulator: the record, the input records that went into it, and
\* the lane of the fold task that produced it (Absent for a merge result)
Acc(key, lin, lane) == [fields |-> LLMOutput(key), lin |-> lin, lane |-> lane]
BatchLin(batch) == [i \in {batch[j].id : j \in DOMAIN batch} |-> 1]
RECURSIVE SumLin(_)
SumLin(accs) == IF accs = <<>> THEN EmptyBag ELSE Head(accs).lin (+) SumLin(Tail(accs))

\* the tasks of a per-group pool run in submission order, max_threads at a time
\* and a task that has ended stays in the list until the group's thread has
\* taken its result
Running(tasks) ==
    LET open == {t \in DOMAIN tasks : ~tasks[t].done}
    IN {t \in open : Cardinality({u \in open : u < t}) < MaxThreads}
RemoveAt(s, i) == SubSeq(s, 1, i - 1) \o SubSeq(s, i + 1, Len(s))

\* the group-level pool: a group task is active from its start to its return
Active(g) == g.pc \notin {"queued", "done", "raised", "collected"}
\* after a group task ended, the pool's free worker takes the next queued one
StartNext(gs) ==
    LET queued == {h \in DOMAIN gs : gs[h].pc = "queued"}
    IN IF queued = {} THEN gs
       ELSE LET h == CHOOSE x \in queued : \A y \in queued : x <= y
            IN [gs EXCEPT ![h].pc = "start"]

\* a variant in which every group task starts at once, whatever the pool's width
NewGroupAllStarted(i, g) ==
    [ pc |-> "start", key |-> g.key, group_list |-> g.items, remaining_items |-> <<>>,
      fold_results |-> <<>>, new_results |-> <<>>, tasks |-> <<>>, num_parallel_folds |-> 0,
      used_default_times |-> FALSE, fold_time |-> None, current_output |-> None,
      total_cost |-> 0, result |-> None, dispatched |-> <<>>, calls |-> <<>>, estimates |-> 0,
      lane_values |-> <<>>, absent_step |-> FALSE,
      merge_rounds |-> <<>>, merge_absent |-> FALSE ]
\* the locals of process_group and of the strategy it runs
NewGroup(i, g) ==
    [ pc |-> IF i <= MaxThreads THEN "start" ELSE "queued",
      key |-> g.key,
      group_list |-> g.items,
      remaining_items |-> <<>>,
      fold_results |-> <<>>,
      new_results |-> <<>>,
      tasks |-> <<>>,
      num_parallel_folds |-> 0,
      used_default_times |-> FALSE,
      fold_time |-> None,     \* what get_fold_time gave, until get_merge_time is called
      current_output |-> None,
      total_cost |-> 0,
      result |-> None,
      dispatched |-> <<>>,    \* history: the strategies process_group called
      calls |-> <<>>,         \* history: the calls _incremental_reduce made
      estimates |-> 0,        \* history: the calls of calculate_num_parallel_folds
      lane_values |-> <<>>,   \* history: the values num_parallel_folds has had
      absent_step |-> FALSE,  \* history: a fold or merge step returned None
      merge_rounds |-> <<>>,  \* history: accumulators before each merge-down round
      merge_absent |-> FALSE  \* history: a merge-down merge returned None
    ]

Prefill(n, d) == [i \in 1 .. n |-> d]

Init ==
    /\ config \in {c \in Configs : PlainRecords(c)}
    /\ llm_extra = {}
    /\ \E n \in PriorSamples :
          /\ fold_times = Prefill(n, CHOOSE d \in FoldDurations : TRUE)
          /\ merge_times = Prefill(n, CHOOSE d \in MergeDurations : TRUE)
    /\ exec_pc = "idle"
    /\ input_data = <<>>
    /\ grouped_data = <<>>
    /\ grp = <<>>
    /\ results = <<>>
    /\ total_cost = 0
    /\ spent = 0
    /\ lock = 0
    /\ thr = <<>>

\* execute(), lines 185-226: sort, group, submit one task per group
ExecuteOn(lists) ==
    /\ exec_pc = "idle"
    /\ \E data \in lists :
          /\ input_data' = data
          /\ grouped_data' = GroupedData(data)
          /\ grp' = [i \in DOMAIN GroupedData(data) |-> NewGroup(i, GroupedData(data)[i])]
    /\ exec_pc' = "running"
    /\ UNCHANGED lockvars
    /\ UNCHANGED <<config, llm_extra, fold_times, merge_times, results, total_cost, spent>>
Execute == ExecuteOn(InputLists)

\* ------------------------------------------------------------- model calls
\* what the model service charged for one call: a batch reduce over n records
\* (with the gleaning rounds when configured), a fold of n records into an
\* accumulator, a merge of n accumulators
GleaningCost(n) == CallCost(n)
ChargedBatch(n) == IF config.gleaning THEN GleaningCost(n) + CallCost(n) ELSE CallCost(n)
ChargedFold(n) == CallCost(n + 1)
ChargedMerge(n) == CallCost(n)
Charged(kind, batch, accs) ==
    IF kind = "merge" THEN ChargedMerge(Len(accs))
    ELSE IF accs = None THEN ChargedBatch(Len(batch))
    ELSE ChargedFold(Len(batch))

\* a variant that reports no cost when the output fails validation
batch_reduce_cost_dropped(key, batch, valid, lane) ==
    [ result |-> IF valid THEN <<Acc(key, BatchLin(batch), lane)>> ELSE None,
      cost |-> IF valid
               THEN (IF config.gleaning THEN GleaningCost(Len(batch)) ELSE 0) + CallCost(Len(batch))
               ELSE 0,
      timed |-> FALSE ]
\* _batch_reduce(key, group_list): valid is validate_output's answer; timed
\* says whether a duration sample is recorded
batch_reduce(key, batch, valid, lane) ==
    [ result |-> IF valid THEN <<Acc(key, BatchLin(batch), lane)>> ELSE None,
      cost |-> (IF config.gleaning THEN GleaningCost(Len(batch)) ELSE 0) + CallCost(Len(batch)),
      timed |-> FALSE ]
\* a variant of the fold that reports no cost when its output fails validation
increment_fold_cost_dropped(key, batch, current_output, valid, lane) ==
    IF current_output = None THEN batch_reduce(key, batch, valid, lane)
    ELSE [ result |-> IF valid
                      THEN <<Acc(key, BatchLin(batch) (+) current_output[1].lin, lane)>>
                      ELSE None,
           cost |-> IF valid THEN CallCost(Len(batch) + 1) ELSE 0,
           timed |-> TRUE ]
\* _increment_fold(key, batch, current_output)
increment_fold(key, batch, current_output, valid, lane) ==
    IF current_output = None THEN batch_reduce(key, batch, valid, lane)
    ELSE [ result |-> IF valid
                      THEN <<Acc(key, BatchLin(batch) (+) current_output[1].lin, lane)>>
                      ELSE None,
           cost |-> CallCost(Len(batch) + 1),
           timed |-> TRUE ]
\* _merge_results(key, outputs)
merge_results(key, outputs, valid) ==
    [ result |-> IF valid THEN <<Acc(key, SumLin(outputs), Absent)>> ELSE None,
      cost |-> CallCost(Len(outputs)),
      timed |-> TRUE ]

\* ------------------------------------------------------------ process_group
\* a variant of the projection that always keeps the reduce key
ProjectGroupKeepsKey(gl) ==
    IF config.input_schema # {}
    THEN [i \in DOMAIN gl |->
            [id |-> gl[i].id, rec |-> Project(gl[i].rec, config.input_schema \cup {RK})]]
    ELSE gl
\* lines 197-208: project the group to input.schema and select the strategy
ProjectGroup(gl) ==
    IF config.input_schema # {}
    THEN [i \in DOMAIN gl |-> [id |-> gl[i].id, rec |-> Project(gl[i].rec, config.input_schema)]]
    ELSE gl

\* a variant that tests for the fold prompt first
SelectStrategyFoldFirst(c) ==
    IF c.fold_prompt THEN "incremental" ELSE IF c.merge_prompt THEN "parallel" ELSE "batch"
\* lines 203-208: the strategy process_group calls
SelectStrategy(c) ==
    IF c.merge_prompt THEN "parallel" ELSE IF c.fold_prompt THEN "incremental" ELSE "batch"

\* For the fold-merge strategy the step goes up to the first statement of
\* calculate_num_parallel_folds, the call of get_fold_time (line 270), which
\* reads the fold window under the lock.
StartGroup(g) ==
    /\ exec_pc = "running"
    /\ grp[g].pc = "start"
    /\ LET gl == ProjectGroup(grp[g].group_list)
           strategy == SelectStrategy(config)
           me == [grp[g] EXCEPT !.group_list = gl, !.dispatched = Append(@, strategy)]
       IN grp' =
            IF strategy = "parallel"
            THEN [grp EXCEPT ![g] = [me EXCEPT !.pc = "estimate",
                                       !.fold_time = <<get_fold_time(config, fold_times)>>]]
            ELSE IF strategy = "incremental"
            THEN [grp EXCEPT ![g] = [me EXCEPT !.pc = "incr", !.remaining_items = gl]]
            ELSE [grp EXCEPT ![g] = [me EXCEPT !.pc = "batch"]]
    /\ UNCHANGED lockvars
    /\ UNCHANGED <<input_data, config, llm_extra, fold_times, merge_times, exec_pc, grouped_data,
                   results, total_cost, spent>>

\* lines 271-284: get_merge_time reads the merge window under the lock,
\* taken anew, and the number of lanes is computed from the two values
CalculateLanes(g) ==
    /\ exec_pc = "running"
    /\ grp[g].pc = "estimate"
    /\ LET me == grp[g]
           e == calculate_num_parallel_folds(config, Len(me.group_list), me.fold_time[1],
                                             get_merge_time(config, merge_times))
       IN grp' =
            IF e.raised
            THEN StartNext([grp EXCEPT ![g] = [@ EXCEPT !.pc = "raised", !.estimates = 1,
                                                 !.fold_time = None]])
            ELSE [grp EXCEPT ![g] = [@ EXCEPT !.pc = "loop",
                                       !.fold_time = None,
                                       !.remaining_items = me.group_list,
                                       !.estimates = 1,
                                       !.lane_values = <<e.lanes>>,
                                       !.num_parallel_folds = e.lanes,
                                       !.used_default_times = e.used_default]]
    /\ UNCHANGED lockvars
    /\ UNCHANGED <<input_data, config, llm_extra, fold_times, merge_times, exec_pc, grouped_data,
                   results, total_cost, spent>>

\* the batch strategy, line 208: one _batch_reduce over the whole group
BatchReduce(g) ==
    /\ exec_pc = "running"
    /\ grp[g].pc = "batch"
    /\ \E valid \in BOOLEAN :
          LET r == batch_reduce(grp[g].key, grp[g].group_list, valid, Absent)
          IN /\ grp' = [grp EXCEPT ![g] = [@ EXCEPT !.pc = "post", !.result = r.result,
                                             !.total_cost = r.cost]]
             /\ spent' = spent + Charged("fold", grp[g].group_list, None)
    /\ UNCHANGED lockvars
    /\ UNCHANGED <<input_data, config, llm_extra, fold_times, merge_times, exec_pc, grouped_data,
                   results, total_cost>>

\* _incremental_reduce, lines 387-398: one iteration of the loop over batches
IncrementalStep(g) ==
    /\ exec_pc = "running"
    /\ grp[g].pc = "incr"
    /\ \E valid \in BOOLEAN, d \in FoldDurations :
          LET me == grp[g]
              batch == Take(me.remaining_items, config.fold_batch_size)
              rest == Drop(me.remaining_items, config.fold_batch_size)
              r == increment_fold(me.key, batch, me.current_output, valid, 0)
              call == [ids |-> [j \in DOMAIN batch |-> batch[j].id],
                       prior |-> me.current_output,
                       via |-> IF r.timed THEN "fold" ELSE "batch_reduce",
                       result |-> r.result,
                       charged |-> Charged("fold", batch, me.current_output)]
              now == [me EXCEPT !.total_cost = @ + r.cost, !.calls = Append(@, call)]
          IN /\ grp' =
                  IF r.result = None
                  THEN [grp EXCEPT ![g] = [now EXCEPT !.pc = "post", !.result = None,
                                             !.absent_step = TRUE]]
                  ELSE IF rest = <<>>
                  THEN [grp EXCEPT ![g] = [now EXCEPT !.pc = "post", !.result = r.result,
                                             !.current_output = r.result,
                                             !.remaining_items = rest]]
                  ELSE [grp EXCEPT ![g] = [now EXCEPT !.current_output = r.result,
                                             !.remaining_items = rest]]
             /\ fold_times' = IF r.timed THEN DequeAppend(fold_times, d) ELSE fold_times
             /\ spent' = spent + Charged("fold", batch, me.current_output)
    /\ UNCHANGED lockvars
    /\ UNCHANGED <<input_data, config, llm_extra, merge_times, exec_pc, grouped_data, results, total_cost>>

\* lines 216-218: copy the first record's fields that are neither in the
\* output schema nor in the result
PassThrough(fields, first) ==
    [f \in (DOMAIN fields) \cup {k \in DOMAIN first : k \notin OutputSchema} |->
        IF f \in DOMAIN fields THEN fields[f] ELSE first[f]]

\* lines 210-220: pass-through, and process_group returns
FinishGroup(g) ==
    /\ exec_pc = "running"
    /\ grp[g].pc = "post"
    /\ LET me == grp[g]
           res == IF me.result # None /\ config.pass_through /\ me.group_list # <<>>
                  THEN <<[me.result[1] EXCEPT
                            !.fields = PassThrough(@, me.group_list[1].rec)]>>
                  ELSE me.result
       IN grp' = StartNext([grp EXCEPT ![g] = [@ EXCEPT !.pc = "done", !.result = res]])
    /\ UNCHANGED lockvars
    /\ UNCHANGED <<input_data, config, llm_extra, fold_times, merge_times, exec_pc, grouped_data,
                   results, total_cost, spent>>

\* a variant that adds a group's cost only when the group produced a record
CollectSkipsAbsentCost(g) ==
    /\ exec_pc = "running"
    /\ grp[g].pc \in {"done", "raised"}
    /\ grp' = [grp EXCEPT ![g].pc = "collected"]
    /\ IF grp[g].pc = "raised"
       THEN /\ exec_pc' = "raised"
            /\ UNCHANGED <<results, total_cost>>
       ELSE /\ total_cost' = IF grp[g].result # None
                             THEN total_cost + grp[g].total_cost ELSE total_cost
            /\ results' = IF grp[g].result # None
                          THEN Append(results, [fields |-> grp[g].result[1].fields,
                                                lin |-> grp[g].result[1].lin,
                                                group |-> g])
                          ELSE results
            /\ exec_pc' = IF \A h \in Groups \ {g} : grp[h].pc = "collected"
                          THEN "returned" ELSE "running"
    /\ UNCHANGED lockvars
    /\ UNCHANGED <<input_data, config, llm_extra, fold_times, merge_times, grouped_data, spent>>
\* lines 229-241: the main thread takes a finished group task
Collect(g) ==
    /\ exec_pc = "running"
    /\ grp[g].pc \in {"done", "raised"}
    /\ grp' = [grp EXCEPT ![g].pc = "collected"]
    /\ IF grp[g].pc = "raised"
       THEN /\ exec_pc' = "raised"
            /\ UNCHANGED <<results, total_cost>>
       ELSE /\ total_cost' = total_cost + grp[g].total_cost
            /\ results' = IF grp[g].result # None
                          THEN Append(results, [fields |-> grp[g].result[1].fields,
                                                lin |-> grp[g].result[1].lin,
                                                group |-> g])
                          ELSE results
            /\ exec_pc' = IF \A h \in Groups \ {g} : grp[h].pc = "collected"
                          THEN "returned" ELSE "running"
    /\ UNCHANGED lockvars
    /\ UNCHANGED <<input_data, config, llm_extra, fold_times, merge_times, grouped_data, spent>>

\* ------------------------------------------------ _parallel_fold_and_merge
\* a submitted task (a future): done, result and cost are set when the
\* worker's call has returned
FoldTask(lane, batch, accs) ==
    [kind |-> "fold", lane |-> lane, batch |-> batch, accs |-> accs,
     done |-> FALSE, result |-> None, cost |-> 0]
MergeTask(accs) ==
    [kind |-> "merge", lane |-> Absent, batch |-> <<>>, accs |-> accs,
     done |-> FALSE, result |-> None, cost |-> 0]
\* a variant whose chunks are one accumulator too long
MergeTasksLongChunks(fr) ==
    LET cs == Chunks(fr, config.merge_batch_size + 1)
    IN [i \in DOMAIN cs |-> MergeTask(cs[i])]
\* lines 319-323 and 350-354: one merge task per chunk of merge_batch_size
MergeTasks(fr) ==
    LET cs == Chunks(fr, config.merge_batch_size)
    IN [i \in DOMAIN cs |-> MergeTask(cs[i])]

\* a variant that keeps one list of accumulators for the whole operation
\* instance, so that every group reads the list of the first group
CurrentOutputShared(g, i) ==
    IF i < Len(grp[1].fold_results) THEN <<grp[1].fold_results[i + 1]>> ELSE None
\* line 296: fold_results[i] if i < len(fold_results) else None
CurrentOutput(g, i) ==
    IF i < Len(grp[g].fold_results) THEN <<grp[g].fold_results[i + 1]>> ELSE None

\* lines 292-301: the folding phase submits its lane tasks
SubmitFolds(g) ==
    /\ exec_pc = "running"
    /\ grp[g].pc = "loop"
    /\ LET me == grp[g]
           b == config.fold_batch_size
           n == Min2(me.num_parallel_folds, Len(me.remaining_items))
       IN grp' = [grp EXCEPT ![g] = [@ EXCEPT
                    !.pc = "foldwait",
                    !.tasks = [i \in 1 .. n |->
                                 FoldTask(i - 1,
                                          Take(Drop(me.remaining_items, (i - 1) * b), b),
                                          CurrentOutput(g, i - 1))],
                    !.remaining_items = Drop(me.remaining_items, n * b),
                    !.new_results = <<>>]]
    /\ UNCHANGED lockvars
    /\ UNCHANGED <<input_data, config, llm_extra, fold_times, merge_times, exec_pc, grouped_data,
                   results, total_cost, spent>>

\* one running fold task makes its model call in a worker of the pool and
\* ends (_increment_fold, submitted at lines 297-301)
CompleteFold(g, t) ==
    /\ exec_pc = "running"
    /\ grp[g].pc = "foldwait"
    /\ t \in Running(grp[g].tasks)
    /\ \E valid \in BOOLEAN, d \in FoldDurations :
          LET me == grp[g]
              task == me.tasks[t]
              r == increment_fold(me.key, task.batch, task.accs, valid, task.lane)
          IN /\ grp' = [grp EXCEPT ![g] = [@ EXCEPT
                          !.tasks[t] = [@ EXCEPT !.done = TRUE, !.result = r.result,
                                                 !.cost = r.cost],
                          !.absent_step = @ \/ r.result = None]]
             /\ fold_times' = IF r.timed THEN DequeAppend(fold_times, d) ELSE fold_times
             /\ spent' = spent + Charged("fold", task.batch, task.accs)
    /\ UNCHANGED lockvars
    /\ UNCHANGED <<input_data, config, llm_extra, merge_times, exec_pc, grouped_data, results, total_cost>>

\* lines 304-308: as_completed hands the group's thread a fold task that
\* has ended, any of them when several have
CollectFold(g, t) ==
    /\ exec_pc = "running"
    /\ grp[g].pc = "foldwait"
    /\ t \in DOMAIN grp[g].tasks
    /\ grp[g].tasks[t].done
    /\ grp' = [grp EXCEPT ![g] = [@ EXCEPT
                  !.tasks = RemoveAt(@, t),
                  !.total_cost = @ + grp[g].tasks[t].cost,
                  !.new_results = @ \o grp[g].tasks[t].result]]
    /\ UNCHANGED lockvars
    /\ UNCHANGED <<input_data, config, llm_extra, fold_times, merge_times, exec_pc, grouped_data,
                   results, total_cost, spent>>

\* a variant that keeps the new results only
UpdateFoldResultsNewOnly(new, old) == new
\* a variant that puts the new results in front of all the old ones
UpdateFoldResultsKeepsAll(new, old) == new \o old
\* line 311: new_fold_results + fold_results[len(new_fold_results):]
UpdateFoldResults(new, old) == new \o Drop(old, Len(new))

\* a variant that skips the single-pass merge once a merge time is known,
\* measured or configured
EarlyMergeDueByEstimate(c, mt, fr) ==
    get_merge_time(c, mt).default /\ Len(fr) >= c.merge_batch_size
\* lines 314-317: the test of the single-pass merge
EarlyMergeDue(c, mt, fr) == Len(mt) < min_samples /\ Len(fr) >= c.merge_batch_size

\* a variant of the barrier that lets one task still run
AllDoneButOne(tasks) == Len(tasks) <= 1
\* the as_completed loops (lines 304, 326, 357) are over: every submitted
\* task has ended and its result has been taken
AllDone(tasks) == tasks = <<>>

\* lines 310-323: all fold tasks are in; update fold_results and decide on
\* the single-pass merge
AfterFolds(g) ==
    /\ exec_pc = "running"
    /\ grp[g].pc = "foldwait"
    /\ AllDone(grp[g].tasks)
    /\ LET me == grp[g]
           fr == UpdateFoldResults(me.new_results, me.fold_results)
       IN grp' =
            IF EarlyMergeDue(config, merge_times, fr)
            THEN [grp EXCEPT ![g] = [@ EXCEPT !.pc = "mergewait", !.fold_results = fr,
                                       !.tasks = MergeTasks(fr), !.new_results = <<>>]]
            ELSE [grp EXCEPT ![g] = [@ EXCEPT !.pc = "recalc", !.fold_results = fr,
                                       !.new_results = <<>>]]
    /\ UNCHANGED lockvars
    /\ UNCHANGED <<input_data, config, llm_extra, fold_times, merge_times, exec_pc, grouped_data,
                   results, total_cost, spent>>

\* one running merge task (of the single-pass merge or of the final merge)
\* makes its model call in a worker of the pool and ends (_merge_results,
\* submitted at lines 321-323 and 352-354)
CompleteMerge(g, t) ==
    /\ exec_pc = "running"
    /\ grp[g].pc \in {"mergewait", "finalwait"}
    /\ t \in Running(grp[g].tasks)
    /\ \E valid \in BOOLEAN, d \in MergeDurations :
          LET me == grp[g]
              task == me.tasks[t]
              r == merge_results(me.key, task.accs, valid)
          IN /\ grp' = [grp EXCEPT ![g] = [@ EXCEPT
                          !.tasks[t] = [@ EXCEPT !.done = TRUE, !.result = r.result,
                                                 !.cost = r.cost],
                          !.absent_step = @ \/ r.result = None,
                          !.merge_absent = @ \/ (me.pc = "finalwait" /\ r.result = None)]]
             /\ merge_times' = IF r.timed THEN DequeAppend(merge_times, d) ELSE merge_times
             /\ spent' = spent + Charged("merge", task.batch, task.accs)
    /\ UNCHANGED lockvars
    /\ UNCHANGED <<input_data, config, llm_extra, fold_times, exec_pc, grouped_data, results, total_cost>>

\* lines 326-330 and 357-361: as_completed hands the group's thread a merge
\* task that has ended, any of them when several have
CollectMerge(g, t) ==
    /\ exec_pc = "running"
    /\ grp[g].pc \in {"mergewait", "finalwait"}
    /\ t \in DOMAIN grp[g].tasks
    /\ grp[g].tasks[t].done
    /\ grp' = [grp EXCEPT ![g] = [@ EXCEPT
                  !.tasks = RemoveAt(@, t),
                  !.total_cost = @ + grp[g].tasks[t].cost,
                  !.new_results = @ \o grp[g].tasks[t].result]]
    /\ UNCHANGED lockvars
    /\ UNCHANGED <<input_data, config, llm_extra, fold_times, merge_times, exec_pc, grouped_data,
                   results, total_cost, spent>>

\* line 332: the single-pass merge is in
AfterEarlyMerge(g) ==
    /\ exec_pc = "running"
    /\ grp[g].pc = "mergewait"
    /\ AllDone(grp[g].tasks)
    /\ grp' = [grp EXCEPT ![g] = [@ EXCEPT !.pc = "recalc",
                                    !.fold_results = grp[g].new_results,
                                    !.new_results = <<>>]]
    /\ UNCHANGED lockvars
    /\ UNCHANGED <<input_data, config, llm_extra, fold_times, merge_times, exec_pc, grouped_data,
                   results, total_cost, spent>>

\* a variant that takes every new estimate, placeholder or not
AdoptedLanesAlways(old, e) == e.lanes
\* lines 339-343: the new estimate is taken when it used no placeholder
AdoptedLanes(old, e) == IF e.used_default THEN old ELSE e.lanes

\* lines 335-337 up to the call of get_fold_time (line 270), which reads the
\* fold window under the lock; without a placeholder in use, the loop test
\* of line 290
Recalculate(g) ==
    /\ exec_pc = "running"
    /\ grp[g].pc = "recalc"
    /\ LET me == grp[g]
           next == IF me.remaining_items = <<>> THEN "final" ELSE "loop"
       IN grp' =
            IF ~me.used_default_times
            THEN [grp EXCEPT ![g].pc = next]
            ELSE [grp EXCEPT ![g] = [@ EXCEPT !.pc = "reestimate",
                                       !.fold_time = <<get_fold_time(config, fold_times)>>]]
    /\ UNCHANGED lockvars
    /\ UNCHANGED <<input_data, config, llm_extra, fold_times, merge_times, exec_pc, grouped_data,
                   results, total_cost, spent>>

\* lines 271-282 and 338-343: get_merge_time reads the merge window under
\* the lock, taken anew; the new estimate is adopted or dropped; then the
\* loop test of line 290
AdoptRecalculation(g) ==
    /\ exec_pc = "running"
    /\ grp[g].pc = "reestimate"
    /\ LET me == grp[g]
           e == calculate_num_parallel_folds(config, Len(me.group_list), me.fold_time[1],
                                             get_merge_time(config, merge_times))
           next == IF me.remaining_items = <<>> THEN "final" ELSE "loop"
       IN grp' =
            IF e.raised
            THEN StartNext([grp EXCEPT ![g] = [@ EXCEPT !.pc = "raised",
                                                 !.fold_time = None,
                                                 !.estimates = @ + 1]])
            ELSE [grp EXCEPT ![g] = [@ EXCEPT
                    !.pc = next,
                    !.fold_time = None,
                    !.used_default_times = e.used_default,
                    !.num_parallel_folds = AdoptedLanes(@, e),
                    !.estimates = @ + 1,
                    !.lane_values = IF AdoptedLanes(me.num_parallel_folds, e)
                                         = me.num_parallel_folds
                                    THEN @ ELSE Append(@, AdoptedLanes(me.num_parallel_folds, e))]]
    /\ UNCHANGED lockvars
    /\ UNCHANGED <<input_data, config, llm_extra, fold_times, merge_times, exec_pc, grouped_data,
                   results, total_cost, spent>>

\* lines 347-354: a round of the final merge submits its tasks
SubmitFinalMerge(g) ==
    /\ exec_pc = "running"
    /\ grp[g].pc = "final"
    /\ Len(grp[g].fold_results) > 1
    /\ grp' = [grp EXCEPT ![g] = [@ EXCEPT !.pc = "finalwait",
                                    !.tasks = MergeTasks(grp[g].fold_results),
                                    !.new_results = <<>>,
                                    !.merge_rounds = Append(@, Len(grp[g].fold_results))]]
    /\ UNCHANGED lockvars
    /\ UNCHANGED <<input_data, config, llm_extra, fold_times, merge_times, exec_pc, grouped_data,
                   results, total_cost, spent>>

\* line 363: a round of the final merge is in
AfterFinalMerge(g) ==
    /\ exec_pc = "running"
    /\ grp[g].pc = "finalwait"
    /\ AllDone(grp[g].tasks)
    /\ grp' = [grp EXCEPT ![g] = [@ EXCEPT !.pc = "final",
                                    !.fold_results = grp[g].new_results,
                                    !.new_results = <<>>]]
    /\ UNCHANGED lockvars
    /\ UNCHANGED <<input_data, config, llm_extra, fold_times, merge_times, exec_pc, grouped_data,
                   results, total_cost, spent>>

\* line 365: the loop of the final merge ends
ReturnFoldAndMerge(g) ==
    /\ exec_pc = "running"
    /\ grp[g].pc = "final"
    /\ Len(grp[g].fold_results) <= 1
    /\ grp' = [grp EXCEPT ![g] = [@ EXCEPT !.pc = "post",
                                    !.result = IF grp[g].fold_results # <<>>
                                               THEN <<grp[g].fold_results[1]>> ELSE None]]
    /\ UNCHANGED lockvars
    /\ UNCHANGED <<input_data, config, llm_extra, fold_times, merge_times, exec_pc, grouped_data,
                   results, total_cost, spent>>

\* ------------------------------------------------------------ specification
Next ==
    \/ Execute
    \/ \E g \in Groups : StartGroup(g)
    \/ \E g \in Groups : CalculateLanes(g)
    \/ \E g \in Groups : BatchReduce(g)
    \/ \E g \in Groups : IncrementalStep(g)
    \/ \E g \in Groups : SubmitFolds(g)
    \/ \E g \in Groups : \E t \in DOMAIN grp[g].tasks : CompleteFold(g, t)
    \/ \E g \in Groups : \E t \in DOMAIN grp[g].tasks : CollectFold(g, t)
    \/ \E g \in Groups : AfterFolds(g)
    \/ \E g \in Groups : \E t \in DOMAIN grp[g].tasks : CompleteMerge(g, t)
    \/ \E g \in Groups : \E t \in DOMAIN grp[g].tasks : CollectMerge(g, t)
    \/ \E g \in Groups : AfterEarlyMerge(g)
    \/ \E g \in Groups : Recalculate(g)
    \/ \E g \in Groups : AdoptRecalculation(g)
    \/ \E g \in Groups : SubmitFinalMerge(g)
    \/ \E g \in Groups : AfterFinalMerge(g)
    \/ \E g \in Groups : ReturnFoldAndMerge(g)
    \/ \E g \in Groups : FinishGroup(g)
    \/ \E g \in Groups : Collect(g)

Spec == Init /\ [][Next]_vars

\* The same operation built with pass-through, input projection, gleaning and
\* a model that writes extra fields, on fresh telemetry and without overrides.
InitRecords ==
    /\ config \in {c \in Configs : NoOverride(c)}
    /\ llm_extra \in LLMExtras
    /\ fold_times = <<>>
    /\ merge_times = <<>>
    /\ exec_pc = "idle"
    /\ input_data = <<>>
    /\ grouped_data = <<>>
    /\ grp = <<>>
    /\ results = <<>>
    /\ total_cost = 0
    /\ spent = 0
    /\ lock = 0
    /\ thr = <<>>

SpecRecords == InitRecords /\ [][Next]_vars

\* The final merge on its own: a group of n records whose n lanes each folded
\* one record (fold_batch_size 1, measured timings, every fold valid) and
\* which now enters the loop of line 347 with n accumulators.
MergeDownConfigs ==
    { c \in Configs : /\ PlainRecords(c) /\ NoOverride(c) /\ c.merge_prompt
                      /\ c.fold_batch_size = 1 /\ c.merge_batch_size >= 2 }
\* the estimate of line 284 for such a group: both windows hold min_samples
\* samples (the first fold of a lane records none)
EstimateAfterFolding(n) ==
    calculate_num_parallel_folds(
        config, n,
        get_fold_time(config, Prefill(min_samples, CHOOSE d \in FoldDurations : TRUE)),
        get_merge_time(config, Prefill(min_samples, CHOOSE d \in MergeDurations : TRUE))).lanes
\* the orders in which as_completed can hand back the n fold futures of the
\* one folding round (lines 304-308): order[i] is the lane of the i-th
\* result taken
CollectionOrders(n) ==
    {order \in [1 .. n -> 0 .. n - 1] :
        \A i, j \in 1 .. n : order[i] = order[j] => i = j}
\* line 311 of that round: fold_results is new_fold_results, the lane
\* accumulators in the order they were taken
AfterFolding(n, order) ==
    LET g == GroupedData(MkInput([i \in 1 .. n |-> 1]))[1]
    IN [NewGroup(1, g) EXCEPT
          !.pc = "final",
          !.fold_results = [i \in 1 .. n |->
                               Acc(g.key, BatchLin(<<g.items[order[i] + 1]>>), order[i])],
          !.num_parallel_folds = EstimateAfterFolding(n),
          !.estimates = 1,
          !.lane_values = <<EstimateAfterFolding(n)>>,
          !.dispatched = <<"parallel">>,
          !.total_cost = n * CallCost(1)]
InitMergeDown ==
    /\ config \in MergeDownConfigs
    /\ llm_extra = {}
    /\ fold_times = Prefill(min_samples, CHOOSE d \in FoldDurations : TRUE)
    /\ merge_times = Prefill(min_samples, CHOOSE d \in MergeDurations : TRUE)
    /\ exec_pc = "running"
    /\ \E n \in 1 .. MaxAccs : \E order \in CollectionOrders(n) :
          /\ input_data = MkInput([i \in 1 .. n |-> 1])
          /\ grouped_data = GroupedData(MkInput([i \in 1 .. n |-> 1]))
          /\ grp = <<AfterFolding(n, order)>>
          /\ spent = n * CallCost(1)
    /\ results = <<>>
    /\ total_cost = 0
    /\ lock = 0
    /\ thr = <<>>
NextMergeDown ==
    \/ \E g \in Groups : SubmitFinalMerge(g)
    \/ \E g \in Groups : \E t \in DOMAIN grp[g].tasks : CompleteMerge(g, t)
    \/ \E g \in Groups : \E t \in DOMAIN grp[g].tasks : CollectMerge(g, t)
    \/ \E g \in Groups : AfterFinalMerge(g)
    \/ \E g \in Groups : ReturnFoldAndMerge(g)
    \/ \E g \in Groups : FinishGroup(g)
    \/ \E g \in Groups : Collect(g)
SpecMergeDown == InitMergeDown /\ [][NextMergeDown]_vars

\* The operation on an instance whose earlier executions left one window
\* full, or one sample short of full: the oldest sample is OldestPrior, the
\* others are LaterPrior, and neither is a duration this execution measures.
OldestPrior == 2
LaterPrior == 1
PriorWindow(n) == [i \in 1 .. n |-> IF i = 1 THEN OldestPrior ELSE LaterPrior]
WindowFills ==
    {<<0, 0>>, <<max_samples, 0>>, <<max_samples - 1, 0>>, <<0, max_samples>>,
     <<0, max_samples - 1>>}
\* a window holds samples only if the configured strategy records them
InitWindows ==
    /\ config \in {c \in Configs : /\ PlainRecords(c) /\ NoOverride(c)
                                   /\ (c.fold_prompt => c.fold_batch_size = 1)}
    /\ llm_extra = {}
    /\ \E w \in WindowFills :
          /\ (w = <<0, 0>> <=> ~config.fold_prompt)
          /\ (w[2] > 0 => config.merge_prompt)
          /\ fold_times = PriorWindow(w[1])
          /\ merge_times = PriorWindow(w[2])
    /\ exec_pc = "idle"
    /\ input_data = <<>>
    /\ grouped_data = <<>>
    /\ grp = <<>>
    /\ results = <<>>
    /\ total_cost = 0
    /\ spent = 0
    /\ lock = 0
    /\ thr = <<>>
SpecWindows == InitWindows /\ [][Next]_vars

\* The incremental fold on its own: one group of up to MaxIncrRecords
\* records, handed to process_group under a config with a fold_prompt and
\* no merge_prompt.
IncrementalConfigs ==
    { [c EXCEPT !.fold_batch_size = b] :
         c \in {x \in Configs : /\ x.fold_prompt /\ ~x.merge_prompt
                                 /\ ~x.pass_through /\ x.input_schema = {}},
         b \in 1 .. MaxIncrBatch }
InitIncremental ==
    /\ config \in IncrementalConfigs
    /\ llm_extra = {}
    /\ fold_times = <<>>
    /\ merge_times = <<>>
    /\ exec_pc = "running"
    /\ \E n \in 1 .. MaxIncrRecords :
          /\ input_data = MkInput([i \in 1 .. n |-> 1])
          /\ grouped_data = GroupedData(MkInput([i \in 1 .. n |-> 1]))
          /\ grp = <<NewGroup(1, GroupedData(MkInput([i \in 1 .. n |-> 1]))[1])>>
    /\ results = <<>>
    /\ total_cost = 0
    /\ spent = 0
    /\ lock = 0
    /\ thr = <<>>
NextIncremental ==
    \/ \E g \in Groups : StartGroup(g)
    \/ \E g \in Groups : IncrementalStep(g)
    \/ \E g \in Groups : FinishGroup(g)
    \/ \E g \in Groups : Collect(g)
SpecIncremental == InitIncremental /\ [][NextIncremental]_vars

\* The two levels of worker pools: an execution with more groups than the
\* pool has workers (MaxPoolGroups groups, group k of MaxPoolGroups - k + 1
\* records), under the parallel strategy with measured timings, so that
\* every record of a group gets a lane of its own; the estimate used no
\* default, so line 335 never recalculates it.
RECURSIVE PoolKeysFrom(_)
PoolKeysFrom(k) ==
    IF k > MaxPoolGroups THEN <<>>
    ELSE [i \in 1 .. (MaxPoolGroups - k + 1) |-> k] \o PoolKeysFrom(k + 1)
PoolInputLists == {MkInput(PoolKeysFrom(1))}
InitPool ==
    /\ config \in {c \in Configs : /\ PlainRecords(c) /\ NoOverride(c) /\ c.merge_prompt
                                   /\ c.fold_batch_size = 1
                                   /\ c.merge_batch_size = MaxMergeBatch}
    /\ llm_extra = {}
    /\ fold_times = Prefill(min_samples, CHOOSE d \in FoldDurations : TRUE)
    /\ merge_times = Prefill(min_samples, CHOOSE d \in MergeDurations : TRUE)
    /\ exec_pc = "idle"
    /\ input_data = <<>>
    /\ grouped_data = <<>>
    /\ grp = <<>>
    /\ results = <<>>
    /\ total_cost = 0
    /\ spent = 0
    /\ lock = 0
    /\ thr = <<>>
ExecutePool == ExecuteOn(PoolInputLists)
NextPool ==
    \/ ExecutePool
    \/ \E g \in Groups : StartGroup(g)
    \/ \E g \in Groups : CalculateLanes(g)
    \/ \E g \in Groups : SubmitFolds(g)
    \/ \E g \in Groups : \E t \in DOMAIN grp[g].tasks : CompleteFold(g, t)
    \/ \E g \in Groups : \E t \in DOMAIN grp[g].tasks : CollectFold(g, t)
    \/ \E g \in Groups : AfterFolds(g)
    \/ \E g \in Groups : Recalculate(g)
    \/ \E g \in Groups : SubmitFinalMerge(g)
    \/ \E g \in Groups : \E t \in DOMAIN grp[g].tasks : CompleteMerge(g, t)
    \/ \E g \in Groups : \E t \in DOMAIN grp[g].tasks : CollectMerge(g, t)
    \/ \E g \in Groups : AfterFinalMerge(g)
    \/ \E g \in Groups : ReturnFoldAndMerge(g)
    \/ \E g \in Groups : FinishGroup(g)
    \/ \E g \in Groups : Collect(g)
SpecPool == InitPool /\ [][NextPool]_vars

\* The configuration check before the execution: the operation is built
\* with any configuration, syntax_check runs first, and execute() is called
\* only when it raised nothing.
InitConfig ==
    /\ config \in {c \in RawConfigs : PlainRecords(c) /\ NoOverride(c)}
    /\ llm_extra = {}
    /\ fold_times = <<>>
    /\ merge_times = <<>>
    /\ exec_pc = "unchecked"
    /\ input_data = <<>>
    /\ grouped_data = <<>>
    /\ grp = <<>>
    /\ results = <<>>
    /\ total_cost = 0
    /\ spent = 0
    /\ lock = 0
    /\ thr = <<>>
SyntaxCheck ==
    /\ exec_pc = "unchecked"
    /\ exec_pc' = IF syntax_check(config) THEN "idle" ELSE "config_error"
    /\ UNCHANGED lockvars
    /\ UNCHANGED <<input_data, config, llm_extra, fold_times, merge_times, grouped_data, grp,
                   results, total_cost, spent>>
NextConfig ==
    \/ SyntaxCheck
    \/ Next
SpecConfig == InitConfig /\ [][NextConfig]_vars

\* The fold-merge engine under fair scheduling: configurations with a merge
\* prompt whose overrides, when given, are positive.  Every submitted task
\* is run by a worker of the pool and the threads waiting in as_completed
\* or future.result() go on when their futures are done, so a step that
\* stays possible is eventually taken.
PositiveTimings(c) ==
    /\ (c.fold_time # Absent => c.fold_time > 0)
    /\ (c.merge_time # Absent => c.merge_time > 0)
InitFoldMerge ==
    /\ Init
    /\ config.merge_prompt
    /\ PositiveTimings(config)
NextFoldMerge ==
    \/ Execute
    \/ \E g \in Groups : StartGroup(g)
    \/ \E g \in Groups : CalculateLanes(g)
    \/ \E g \in Groups : SubmitFolds(g)
    \/ \E g \in Groups : \E t \in DOMAIN grp[g].tasks : CompleteFold(g, t)
    \/ \E g \in Groups : \E t \in DOMAIN grp[g].tasks : CollectFold(g, t)
    \/ \E g \in Groups : AfterFolds(g)
    \/ \E g \in Groups : \E t \in DOMAIN grp[g].tasks : CompleteMerge(g, t)
    \/ \E g \in Groups : \E t \in DOMAIN grp[g].tasks : CollectMerge(g, t)
    \/ \E g \in Groups : AfterEarlyMerge(g)
    \/ \E g \in Groups : Recalculate(g)
    \/ \E g \in Groups : AdoptRecalculation(g)
    \/ \E g \in Groups : SubmitFinalMerge(g)
    \/ \E g \in Groups : AfterFinalMerge(g)
    \/ \E g \in Groups : ReturnFoldAndMerge(g)
    \/ \E g \in Groups : FinishGroup(g)
    \/ \E g \in Groups : Collect(g)
SpecFoldMergeFair == InitFoldMerge /\ [][NextFoldMerge]_vars /\ WF_vars(NextFoldMerge)

\* The lifetime of one operation instance: execute() is called again and
\* again on the instance the constructor made.  The windows are attributes
\* set by the constructor (lines 44-45); results, total_cost and the group
\* tasks are locals of each call.
MaxRepeatRecords == 2
MaxRepeatSamples == 6
RepeatInputs == {d \in InputLists : Len(d) <= MaxRepeatRecords}
InitLifetime ==
    /\ Init
    /\ config.merge_prompt
    /\ PositiveTimings(config)
    /\ fold_times = <<>>
    /\ merge_times = <<>>
ExecuteFirst == ExecuteOn(RepeatInputs)
\* execute() called on an instance whose earlier call has returned
ExecuteAgain ==
    /\ exec_pc = "returned"
    /\ Len(fold_times) <= MaxRepeatSamples
    /\ Len(merge_times) <= MaxRepeatSamples
    /\ \E data \in RepeatInputs :
          /\ input_data' = data
          /\ grouped_data' = GroupedData(data)
          /\ grp' = [i \in DOMAIN GroupedData(data) |-> NewGroup(i, GroupedData(data)[i])]
    /\ exec_pc' = "running"
    /\ results' = <<>>
    /\ total_cost' = 0
    /\ spent' = 0
    /\ UNCHANGED lockvars
    /\ UNCHANGED <<config, llm_extra, fold_times, merge_times>>
NextLifetime ==
    \/ ExecuteFirst
    \/ ExecuteAgain
    \/ \E g \in Groups : StartGroup(g)
    \/ \E g \in Groups : CalculateLanes(g)
    \/ \E g \in Groups : SubmitFolds(g)
    \/ \E g \in Groups : \E t \in DOMAIN grp[g].tasks : CompleteFold(g, t)
    \/ \E g \in Groups : \E t \in DOMAIN grp[g].tasks : CollectFold(g, t)
    \/ \E g \in Groups : AfterFolds(g)
    \/ \E g \in Groups : \E t \in DOMAIN grp[g].tasks : CompleteMerge(g, t)
    \/ \E g \in Groups : \E t \in DOMAIN grp[g].tasks : CollectMerge(g, t)
    \/ \E g \in Groups : AfterEarlyMerge(g)
    \/ \E g \in Groups : Recalculate(g)
    \/ \E g \in Groups : AdoptRecalculation(g)
    \/ \E g \in Groups : SubmitFinalMerge(g)
    \/ \E g \in Groups : AfterFinalMerge(g)
    \/ \E g \in Groups : ReturnFoldAndMerge(g)
    \/ \E g \in Groups : FinishGroup(g)
    \/ \E g \in Groups : Collect(g)
SpecLifetime == InitLifetime /\ [][NextLifetime]_vars

\* Input projection: execute() on lists in which only the records at odd
\* positions have the field x, with input.schema not configured, holding
\* the reduce key only, or holding x only.
MkSparseRecord(key, i) == IF i % 2 = 1 THEN MkRecord(key, i) ELSE [f \in {RK} |-> key]
MkSparseInput(keys) == [i \in DOMAIN keys |-> [id |-> i, rec |-> MkSparseRecord(keys[i], i)]]
SparseInputLists ==
    UNION { { MkSparseInput(ks) : ks \in KeyPatterns(n) } : n \in 1 .. MaxRecords }
InitProjection ==
    /\ config \in {c \in Configs : NoOverride(c) /\ ~c.gleaning /\ ~c.pass_through}
    /\ llm_extra = {}
    /\ fold_times = <<>>
    /\ merge_times = <<>>
    /\ exec_pc = "idle"
    /\ input_data = <<>>
    /\ grouped_data = <<>>
    /\ grp = <<>>
    /\ results = <<>>
    /\ total_cost = 0
    /\ spent = 0
    /\ lock = 0
    /\ thr = <<>>
ExecuteSparse == ExecuteOn(SparseInputLists)
NextProjection ==
    \/ ExecuteSparse
    \/ \E g \in Groups : StartGroup(g)
    \/ \E g \in Groups : CalculateLanes(g)
    \/ \E g \in Groups : BatchReduce(g)
    \/ \E g \in Groups : IncrementalStep(g)
    \/ \E g \in Groups : SubmitFolds(g)
    \/ \E g \in Groups : \E t \in DOMAIN grp[g].tasks : CompleteFold(g, t)
    \/ \E g \in Groups : \E t \in DOMAIN grp[g].tasks : CollectFold(g, t)
    \/ \E g \in Groups : AfterFolds(g)
    \/ \E g \in Groups : \E t \in DOMAIN grp[g].tasks : CompleteMerge(g, t)
    \/ \E g \in Groups : \E t \in DOMAIN grp[g].tasks : CollectMerge(g, t)
    \/ \E g \in Groups : AfterEarlyMerge(g)
    \/ \E g \in Groups : Recalculate(g)
    \/ \E g \in Groups : AdoptRecalculation(g)
    \/ \E g \in Groups : SubmitFinalMerge(g)
    \/ \E g \in Groups : AfterFinalMerge(g)
    \/ \E g \in Groups : ReturnFoldAndMerge(g)
    \/ \E g \in Groups : FinishGroup(g)
    \/ \E g \in Groups : Collect(g)
SpecProjection == InitProjection /\ [][NextProjection]_vars

\* Grouping on its own: execute() with the batch strategy on every list of up
\* to MaxRecords records, whatever the order of the keys.
InitGrouping ==
    /\ config \in {c \in Configs : PlainRecords(c) /\ ~c.fold_prompt}
    /\ llm_extra = {}
    /\ fold_times = <<>>
    /\ merge_times = <<>>
    /\ exec_pc = "idle"
    /\ input_data = <<>>
    /\ grouped_data = <<>>
    /\ grp = <<>>
    /\ results = <<>>
    /\ total_cost = 0
    /\ spent = 0
    /\ lock = 0
    /\ thr = <<>>
ExecuteAnyList == ExecuteOn(AllInputLists)
NextGrouping ==
    \/ ExecuteAnyList
    \/ \E g \in Groups : StartGroup(g)
    \/ \E g \in Groups : BatchReduce(g)
    \/ \E g \in Groups : FinishGroup(g)
    \/ \E g \in Groups : Collect(g)
SpecGrouping == InitGrouping /\ [][NextGrouping]_vars

\* ------------------------------------------------------------------ claims
Ended(g) == grp[g].pc \in {"post", "done", "collected"}
\* the record of group g as the input list held it, first of its group
FirstInput(g) == grouped_data[g].items[1].rec

\* C1: for every group, under every strategy, once a fold step or a merge
\* step of the group has returned absent, the group's result is absent and
\* the group contributes no record to the output of execute().
C1_AbsentStepMakesGroupAbsent ==
    /\ \A g \in DOMAIN grp : (Ended(g) /\ grp[g].absent_step) => grp[g].result = None
    /\ \A i \in DOMAIN results : ~grp[results[i].group].absent_step

\* C2: when execute() returns, its total cost is the sum of what the model
\* service charged for every call made during the execution: batch reduces
\* with their gleaning cost, folds and merges, in all groups, whether or not
\* the output passed validation or the incremental reduction went on.
C2_TotalCostIsSumOfCalls ==
    exec_pc = "returned" => total_cost = spent
\* execute() has returned after gleaning batch reduces and a step that
\* returned absent
C2_Witness ==
    /\ exec_pc = "returned"
    /\ config.gleaning
    /\ \E g \in DOMAIN grp : grp[g].absent_step /\ grp[g].total_cost > CallCost(1)

\* C3: every record of the output of execute() carries, in its reduce-key
\* field, the key of the group it was produced from; so does every result a
\* strategy or process_group holds.
C3_ResultCarriesGroupKey ==
    /\ \A i \in DOMAIN results :
          /\ RK \in DOMAIN results[i].fields
          /\ results[i].fields[RK] = grouped_data[results[i].group].key
    /\ \A g \in DOMAIN grp :
          grp[g].result # None =>
             /\ RK \in DOMAIN grp[g].result[1].fields
             /\ grp[g].result[1].fields[RK] = grouped_data[g].key
\* a record is in the output although the model wrote its own value into
\* the key field, with pass-through on and the key projected away
C3_Witness ==
    /\ results # <<>>
    /\ RK \in llm_extra
    /\ config.pass_through
    /\ config.input_schema = {XField}

RECURSIVE Pow(_, _)
Pow(k, r) == IF r = 0 THEN 1 ELSE k * Pow(k, r - 1)
\* ceil(log_k(n)) for n >= 1: the least r with k^r >= n
CeilLog(k, n) == CHOOSE r \in 0 .. n : Pow(k, r) >= n /\ \A q \in 0 .. r - 1 : Pow(k, q) < n
\* the accumulators the final merge of group g started from
MergeDownStart(g) ==
    IF grp[g].merge_rounds = <<>> THEN Len(grp[g].fold_results) ELSE grp[g].merge_rounds[1]

\* C4: in the final merge with merge_batch_size k >= 2, as long as no merge
\* yields absent, each round replaces n accumulators by ceil(n/k); started
\* from N >= 1 accumulators the loop ends after exactly ceil(log_k(N))
\* rounds with exactly one accumulator.
C4_MergeDownRounds ==
    \A g \in DOMAIN grp :
       LET me == grp[g]
           k == config.merge_batch_size
           rounds == me.merge_rounds
       IN (config.merge_prompt /\ k >= 2 /\ ~me.merge_absent) =>
             /\ \A i \in 1 .. Len(rounds) - 1 : rounds[i + 1] = CeilDiv(rounds[i], k)
             /\ (me.pc = "final" /\ rounds # <<>>) =>
                   Len(me.fold_results) = CeilDiv(rounds[Len(rounds)], k)
             /\ (Ended(g) /\ MergeDownStart(g) >= 1) =>
                   /\ Len(rounds) = CeilLog(k, MergeDownStart(g))
                   /\ Len(me.fold_results) = 1
\* the final merge went 5 -> 3 -> 2 -> 1 with merge_batch_size 2
C4_Witness ==
    \E g \in DOMAIN grp :
       /\ Ended(g)
       /\ config.merge_batch_size = 2
       /\ grp[g].merge_rounds = <<5, 3, 2>>
       /\ ~grp[g].merge_absent
       /\ Len(grp[g].fold_results) = 1

\* C5: a lane is a sequential fold chain: when no step of the group returned
\* absent, the prior accumulator handed to lane i's fold task, if a fold
\* produced it (no single-pass merge came between), was produced by lane i's
\* own fold task, whatever the order in which the tasks completed.
C5_LaneFoldsItsOwnAccumulator ==
    \A g \in DOMAIN grp : \A t \in DOMAIN grp[g].tasks :
       LET task == grp[g].tasks[t]
       IN (task.kind = "fold" /\ task.accs # None /\ task.accs[1].lane # Absent
             /\ ~grp[g].absent_step)
          => task.accs[1].lane = task.lane

\* the ids of the input records of group g
GroupIds(g) == {grouped_data[g].items[j].id : j \in DOMAIN grouped_data[g].items}
\* every accumulator the execution of group g holds or has handed to a task
HeldAccs(g) ==
    Range(grp[g].fold_results) \cup Range(grp[g].new_results)
      \cup Range(grp[g].current_output) \cup Range(grp[g].result)
      \cup UNION {Range(grp[g].tasks[t].accs) : t \in DOMAIN grp[g].tasks}

\* C7: with several groups in flight, every accumulator a group's execution
\* holds, every accumulator and record handed to its fold and merge calls,
\* and its result derive only from input records of that group.
C7_GroupIsolation ==
    /\ \A g \in DOMAIN grp :
          /\ \A a \in HeldAccs(g) : BagToSet(a.lin) \subseteq GroupIds(g)
          /\ \A t \in DOMAIN grp[g].tasks :
                {grp[g].tasks[t].batch[j].id : j \in DOMAIN grp[g].tasks[t].batch}
                   \subseteq GroupIds(g)
    /\ \A i \in DOMAIN results : BagToSet(results[i].lin) \subseteq GroupIds(results[i].group)
\* two groups are folding at the same time and the second hands one of its
\* accumulators to a fold task
C7_Witness ==
    \E g \in DOMAIN grp : \E h \in DOMAIN grp :
       /\ g < h
       /\ grp[g].pc = "foldwait" /\ grp[g].fold_results # <<>>
       /\ grp[h].pc = "foldwait"
       /\ \E t \in DOMAIN grp[h].tasks : grp[h].tasks[t].accs # None

\* C8: with a configuration syntax_check accepted, execute() never ends in
\* a fatal error while groups are processed: no group task raises.
C8_NoFatalErrorInExecution ==
    /\ exec_pc # "raised"
    /\ \A g \in DOMAIN grp : grp[g].pc # "raised"

\* C9: with a configuration syntax_check accepted, the merge time the lane
\* estimate divides by is strictly positive in every telemetry state.
C9_MergeTimePositive ==
    \A g \in DOMAIN grp :
       (config.merge_prompt /\ grp[g].pc \in {"estimate", "reestimate"})
       => get_merge_time(config, merge_times).num > 0

\* C10: with pass_through on, the record a group's task returns holds every
\* field of the group's first input record that is not in the output schema,
\* with the input record's value unless the strategy's result already had
\* the field; also with an input.schema configured.
C10_PassThroughKeepsInputFields ==
    \A g \in DOMAIN grp :
       (grp[g].pc \in {"done", "collected"} /\ grp[g].result # None /\ config.pass_through)
       => \A f \in (DOMAIN FirstInput(g)) \ OutputSchema :
             /\ f \in DOMAIN grp[g].result[1].fields
             /\ f \notin DOMAIN LLMOutput(grp[g].key)
                   => grp[g].result[1].fields[f] = FirstInput(g)[f]

\* the places <<g, j>> of grouped_data that hold the record r
PlacesOf(r) ==
    {p \in UNION {{<<g, j>> : j \in DOMAIN grouped_data[g].items} : g \in DOMAIN grouped_data} :
        grouped_data[p[1]].items[p[2]] = r}

\* C11: the groups execute() forms partition its input (every input record
\* is in exactly one group, and the groups hold nothing else), two records
\* are in the same group iff their keys are equal (every record of a group
\* has the group's key, and the keys of the groups are strictly ascending,
\* hence distinct), and the records of a group are in their input order.
C11_GroupingPartitionsByKey ==
    exec_pc # "idle" =>
       /\ \A i \in DOMAIN input_data : Cardinality(PlacesOf(input_data[i])) = 1
       /\ \A g \in DOMAIN grouped_data :
             /\ grouped_data[g].items # <<>>
             /\ \A j \in DOMAIN grouped_data[g].items :
                   /\ grouped_data[g].items[j] \in Range(input_data)
                   /\ grouped_data[g].items[j].rec[RK] = grouped_data[g].key
             /\ \A j \in DOMAIN grouped_data[g].items : \A l \in DOMAIN grouped_data[g].items :
                   j < l => grouped_data[g].items[j].id < grouped_data[g].items[l].id
       /\ \A g \in DOMAIN grouped_data : \A h \in DOMAIN grouped_data :
             g < h => grouped_data[g].key < grouped_data[h].key
\* execute() grouped a list whose keys came interleaved and out of order
C11_Witness ==
    /\ exec_pc # "idle"
    /\ Len(input_data) = 4
    /\ [i \in 1 .. 4 |-> input_data[i].rec[RK]] = <<2, 1, 2, 1>>
    /\ Len(grouped_data) = 2
    /\ [j \in 1 .. 2 |-> grouped_data[1].items[j].id] = <<2, 4>>

\* C12: for positive fold time, merge time, group size and batch sizes, a
\* merge_batch_size of 1 included (logarithm 0), the lane estimate is at
\* least 1: so is the lane count of every group that computed it, and so is
\* the estimate for every group size within the bounds.
C12_LaneEstimateAtLeastOne ==
    (/\ config.merge_prompt
     /\ get_fold_time(config, fold_times).num > 0
     /\ get_merge_time(config, merge_times).num > 0)
    => /\ \A g \in DOMAIN grp :
             grp[g].pc \notin {"queued", "start", "estimate"}
                => grp[g].num_parallel_folds >= 1
       /\ \A n \in 1 .. MaxRecords :
             LET e == calculate_num_parallel_folds(config, n,
                                                   get_fold_time(config, fold_times),
                                                   get_merge_time(config, merge_times))
             IN ~e.raised /\ e.lanes >= 1
\* a group of several records computed its estimate with merge_batch_size 1
\* (the quotient is 0), while for merge_batch_size 3 the estimate would be
\* more than one lane
C12_Witness ==
    \E g \in DOMAIN grp :
       /\ config.merge_prompt /\ config.merge_batch_size = 1
       /\ grp[g].pc = "loop"
       /\ Len(grp[g].group_list) > 1
       /\ grp[g].num_parallel_folds = 1
       /\ calculate_num_parallel_folds([config EXCEPT !.merge_batch_size = 3],
                                       Len(grp[g].group_list),
                                       get_fold_time(config, fold_times),
                                       get_merge_time(config, merge_times)).lanes > 1

\* window w after the append of sample d, the oldest sample leaving a full window
AppendedTo(w, d) ==
    IF Len(w) = max_samples THEN SubSeq(w, 2, max_samples) \o <<d>> ELSE w \o <<d>>

\* C13: each telemetry window holds at most max_samples (1000) samples in
\* every state; a step that changes a window appends one sample to it, and
\* when the window was full the oldest sample, and only it, leaves while the
\* others keep their order; a step that changes one window leaves the other
\* as it was.
C13_WindowsBoundedFifo ==
    [][ /\ Len(fold_times) <= max_samples /\ Len(merge_times) <= max_samples
        /\ Len(fold_times') <= max_samples /\ Len(merge_times') <= max_samples
        /\ fold_times' # fold_times =>
              /\ \E d \in FoldDurations : fold_times' = AppendedTo(fold_times, d)
              /\ merge_times' = merge_times
        /\ merge_times' # merge_times =>
              /\ \E d \in MergeDurations : merge_times' = AppendedTo(merge_times, d)
              /\ fold_times' = fold_times ]_vars
\* a fold sample was appended to the full fold window: the window still holds
\* max_samples samples, the newest is the one measured, and the oldest of the
\* earlier executions has left
C13_Witness ==
    /\ Len(fold_times) = max_samples
    /\ fold_times[max_samples] \in FoldDurations
    /\ fold_times[1] = LaterPrior
    /\ merge_times # <<>>

\* C14: with fold_time in the config, get_fold_time() returns (that value,
\* False) whatever the fold window holds, and likewise merge_time and
\* get_merge_time(); setting or removing the override of one kind leaves
\* the estimate of the other kind as it is.
C14_OverrideWins ==
    /\ config.fold_time # Absent =>
          get_fold_time(config, fold_times)
             = [num |-> config.fold_time, den |-> 1, default |-> FALSE]
    /\ config.merge_time # Absent =>
          get_merge_time(config, merge_times)
             = [num |-> config.merge_time, den |-> 1, default |-> FALSE]
    /\ \A v \in {Absent} \cup (0 .. MaxOverride) :
          /\ get_merge_time([config EXCEPT !.fold_time = v], merge_times)
                = get_merge_time(config, merge_times)
          /\ get_fold_time([config EXCEPT !.merge_time = v], fold_times)
                = get_fold_time(config, fold_times)
\* a group computed its lanes with a fold_time override that differs from
\* the mean of the min_samples or more samples the fold window holds, and
\* with a measured merge time
C14_Witness ==
    /\ config.fold_time # Absent /\ config.merge_time = Absent
    /\ Len(fold_times) >= min_samples
    /\ SumSeq(fold_times) # config.fold_time * Len(fold_times)
    /\ Len(merge_times) >= min_samples
    /\ \E g \in DOMAIN grp : grp[g].pc = "loop" /\ ~grp[g].used_default_times

\* C15: with no override, get_fold_time() and get_merge_time() return (mean
\* of the window, False) when the window holds at least min_samples (5)
\* samples and (1.0, True) when it holds fewer; the flag is True exactly
\* when the value is neither an override nor measured.
C15_MeasuredOrPlaceholder ==
    LET f == get_fold_time(config, fold_times)
        m == get_merge_time(config, merge_times)
    IN /\ config.fold_time = Absent =>
             IF Len(fold_times) >= min_samples
             THEN f.num * Len(fold_times) = SumSeq(fold_times) * f.den /\ ~f.default
             ELSE f.num = f.den /\ f.default
       /\ config.merge_time = Absent =>
             IF Len(merge_times) >= min_samples
             THEN m.num * Len(merge_times) = SumSeq(merge_times) * m.den /\ ~m.default
             ELSE m.num = m.den /\ m.default
       /\ f.default <=> (config.fold_time = Absent /\ Len(fold_times) < min_samples)
       /\ m.default <=> (config.merge_time = Absent /\ Len(merge_times) < min_samples)
\* a group recalculated its lanes when the fold window had just reached
\* min_samples samples (measured) and the merge window was one short of it
\* (placeholder)
C15_Witness ==
    /\ NoOverride(config) /\ config.merge_prompt
    /\ Len(fold_times) = min_samples
    /\ Len(merge_times) = min_samples - 1
    /\ \E g \in DOMAIN grp : grp[g].pc \in {"loop", "final"} /\ grp[g].used_default_times

\* C16: every group is dispatched exactly once, to one strategy, which the
\* config alone decides: parallel fold-merge with a merge_prompt,
\* incremental fold with a fold_prompt and no merge_prompt, batch reduce
\* with neither; a group runs the steps of that strategy only, and all the
\* groups of an execution use the same strategy.
C16_OneStrategyPerGroup ==
    /\ \A g \in DOMAIN grp :
          /\ Len(grp[g].dispatched) = (IF grp[g].pc \in {"queued", "start"} THEN 0 ELSE 1)
          /\ \A i \in DOMAIN grp[g].dispatched :
                /\ config.merge_prompt => grp[g].dispatched[i] = "parallel"
                /\ (config.fold_prompt /\ ~config.merge_prompt)
                      => grp[g].dispatched[i] = "incremental"
                /\ (~config.fold_prompt /\ ~config.merge_prompt)
                      => grp[g].dispatched[i] = "batch"
          /\ grp[g].pc = "batch" => grp[g].dispatched = <<"batch">>
          /\ grp[g].pc = "incr" => grp[g].dispatched = <<"incremental">>
          /\ grp[g].pc \in {"estimate", "loop", "foldwait", "mergewait", "recalc", "reestimate", "final",
                                "finalwait"}
                => grp[g].dispatched = <<"parallel">>
    /\ \A g \in DOMAIN grp : \A h \in DOMAIN grp :
          (grp[g].dispatched # <<>> /\ grp[h].dispatched # <<>>)
          => grp[g].dispatched = grp[h].dispatched
    /\ exec_pc = "returned" => \A g \in DOMAIN grp : Len(grp[g].dispatched) = 1
\* execute() returned after two groups went through the parallel fold-merge
\* strategy under a config that carries both prompts
C16_Witness ==
    /\ exec_pc = "returned"
    /\ config.merge_prompt /\ config.fold_prompt
    /\ Len(grp) = 2
    /\ \A g \in DOMAIN grp : grp[g].dispatched = <<"parallel">>

\* the ids of the records i .. j of group g, in the group's order
IdsOf(g, i, j) == [l \in 1 .. (j - i + 1) |-> grouped_data[g].items[i + l - 1].id]

\* C17: the incremental fold of a group of n records with fold_batch_size b
\* calls the model on consecutive batches, one call after the other: call i
\* is given records (i-1)*b+1 .. min(i*b, n) (b records, the last batch
\* possibly fewer); the first call is a batch reduce with no accumulator,
\* every later one a fold against the result of the call before it; when
\* no call returned absent, there are exactly ceil(n/b) calls and the
\* result is the last accumulator, carrying the group key.
C17_IncrementalFoldsInSequence ==
    \A g \in DOMAIN grp :
       LET me == grp[g]
           n == Len(grouped_data[g].items)
           b == config.fold_batch_size
       IN (config.fold_prompt /\ ~config.merge_prompt) =>
             /\ \A i \in DOMAIN me.calls :
                   /\ i <= CeilDiv(n, b)
                   /\ me.calls[i].ids = IdsOf(g, (i - 1) * b + 1, Min2(i * b, n))
                   /\ i = 1 => me.calls[i].prior = None /\ me.calls[i].via = "batch_reduce"
                   /\ i > 1 => /\ me.calls[i].via = "fold"
                                /\ me.calls[i].prior # None
                                /\ me.calls[i].prior = me.calls[i - 1].result
             /\ (Ended(g) /\ ~me.absent_step) =>
                   /\ Len(me.calls) = CeilDiv(n, b)
                   /\ me.result # None
                   /\ me.result = me.calls[Len(me.calls)].result
                   /\ me.result[1].fields[RK] = me.key
                   /\ BagToSet(me.result[1].lin) = GroupIds(g)
\* a group of 7 records was folded with fold_batch_size 3 in three calls, on
\* batches of 3, 3 and 1 records, and no call returned absent
C17_Witness ==
    \E g \in DOMAIN grp :
       /\ config.fold_prompt /\ ~config.merge_prompt /\ config.fold_batch_size = 3
       /\ Ended(g) /\ ~grp[g].absent_step
       /\ Len(grouped_data[g].items) = 7
       /\ [i \in DOMAIN grp[g].calls |-> Len(grp[g].calls[i].ids)] = <<3, 3, 1>>

RECURSIVE ChargedSoFar(_)
\* what the model service charged for a sequence of calls
ChargedSoFar(cs) == IF cs = <<>> THEN 0 ELSE cs[1].charged + ChargedSoFar(Tail(cs))

\* C18: in the incremental fold, the first call that returns absent is the
\* last call of the group: _incremental_reduce returns absent with the cost
\* of every call made up to and including that one, and the remaining
\* batches are not sent to the model.
C18_IncrementalAbortsOnAbsent ==
    \A g \in DOMAIN grp :
       LET me == grp[g]
       IN (config.fold_prompt /\ ~config.merge_prompt) =>
             /\ \A i \in DOMAIN me.calls : me.calls[i].result = None => i = Len(me.calls)
             /\ me.absent_step <=>
                   (me.calls # <<>> /\ me.calls[Len(me.calls)].result = None)
             /\ me.absent_step =>
                   /\ Ended(g)
                   /\ me.result = None
                   /\ me.total_cost = ChargedSoFar(me.calls)
\* the second of three folds returned absent: the group ended with two
\* calls made, the cost of both, and the third batch never sent
C18_Witness ==
    \E g \in DOMAIN grp :
       /\ config.fold_prompt /\ ~config.merge_prompt
       /\ grp[g].absent_step /\ Ended(g)
       /\ Len(grp[g].calls) = 2
       /\ CeilDiv(Len(grouped_data[g].items), config.fold_batch_size) = 3
       /\ grp[g].remaining_items # <<>>
       /\ grp[g].total_cost = ChargedSoFar(grp[g].calls)

\* the model calls group g has running: the tasks its pool is running, or
\* the one call of a batch reduce or of an incremental step
RunningCalls(g) ==
    IF grp[g].pc \in {"foldwait", "mergewait", "finalwait"}
    THEN Cardinality(Running(grp[g].tasks))
    ELSE IF grp[g].pc \in {"batch", "incr"} THEN 1 ELSE 0
RECURSIVE RunningCallsUpTo(_)
RunningCallsUpTo(g) == IF g = 0 THEN 0 ELSE RunningCalls(g) + RunningCallsUpTo(g - 1)

\* C19: with pools of width W (max_threads) at both levels, at most W group
\* tasks are running at any moment (the others are queued, ended or
\* collected), every group has at most W fold or merge tasks running, and
\* at most W * W model calls are running in all.
C19_PoolWidthBoundsConcurrency ==
    /\ Cardinality({g \in DOMAIN grp : Active(grp[g])}) <= MaxThreads
    /\ \A g \in DOMAIN grp :
          /\ RunningCalls(g) <= MaxThreads
          /\ ~Active(grp[g]) => grp[g].tasks = <<>>
    /\ RunningCallsUpTo(Len(grp)) <= MaxThreads * MaxThreads
\* W groups each have W model calls running, one of them with a further
\* task waiting for a worker, while another group waits in the queue
C19_Witness ==
    /\ RunningCallsUpTo(Len(grp)) = MaxThreads * MaxThreads
    /\ \E g \in DOMAIN grp : grp[g].pc = "queued"
    /\ \E g \in DOMAIN grp : Len(grp[g].tasks) > MaxThreads

\* the places of the output of execute() that hold the record of group g
OutputsOf(g) == {i \in DOMAIN results : results[i].group = g}
RECURSIVE GroupCostsUpTo(_)
GroupCostsUpTo(g) == IF g = 0 THEN 0 ELSE grp[g].total_cost + GroupCostsUpTo(g - 1)

\* C20: the output of execute() never holds more than one record of a
\* group, and when execute() returns it holds exactly one record, the
\* group's own, for each group whose strategy produced a record and none
\* for a group whose strategy returned absent; no two output records share
\* a reduce key; the total cost is the sum of the costs of all groups, the
\* absent ones included.
C20_OneRecordPerProducingGroup ==
    /\ \A g \in DOMAIN grp :
          /\ Cardinality(OutputsOf(g)) <= 1
          /\ \A i \in OutputsOf(g) :
                /\ grp[g].pc = "collected" /\ grp[g].result # None
                /\ results[i].fields = grp[g].result[1].fields
    /\ \A i \in DOMAIN results : \A j \in DOMAIN results :
          i # j => results[i].fields[RK] # results[j].fields[RK]
    /\ exec_pc = "returned" =>
          /\ \A g \in DOMAIN grp :
                Cardinality(OutputsOf(g)) = (IF grp[g].result # None THEN 1 ELSE 0)
          /\ Len(results) = Cardinality({g \in DOMAIN grp : grp[g].result # None})
          /\ total_cost = GroupCostsUpTo(Len(grp))
\* execute() returned one record for two groups: the first group returned
\* absent after a call that was charged, the second produced a record
C20_Witness ==
    /\ exec_pc = "returned"
    /\ Len(grp) = 2
    /\ grp[1].result = None /\ grp[1].total_cost > 0
    /\ grp[2].result # None
    /\ Len(results) = 1
    /\ total_cost = grp[1].total_cost + grp[2].total_cost

\* C21: a configuration syntax_check accepted has a fold_prompt and a
\* merge_batch_size whenever it has a merge_prompt, a fold_batch_size
\* whenever it has a fold_prompt, and batch sizes that are positive when
\* present; so the strategy a group runs finds every batch size it reads
\* present and positive.
C21_AcceptedConfigHasBatchSizes ==
    exec_pc \notin {"unchecked", "config_error"} =>
       /\ config.merge_prompt =>
             config.fold_prompt /\ config.merge_batch_size # Absent
       /\ config.fold_prompt => config.fold_batch_size # Absent
       /\ config.fold_batch_size # Absent => config.fold_batch_size > 0
       /\ config.merge_batch_size # Absent => config.merge_batch_size > 0
       /\ \A g \in DOMAIN grp :
             /\ grp[g].pc = "incr" => config.fold_batch_size > 0
             /\ grp[g].pc \in {"estimate", "loop", "foldwait", "mergewait", "recalc", "reestimate", "final",
                                "finalwait"}
                   => config.fold_batch_size > 0 /\ config.merge_batch_size > 0
\* a group is folding under an accepted configuration, and a configuration
\* with a batch size of 0 would have been refused
C21_Witness ==
    /\ exec_pc = "running"
    /\ config.merge_prompt
    /\ \E g \in DOMAIN grp : grp[g].pc = "foldwait"
    /\ ~syntax_check([config EXCEPT !.fold_batch_size = 0])
    /\ ~syntax_check([config EXCEPT !.merge_batch_size = Absent])

\* C22: the results of a fold phase are collected in the order the tasks
\* complete, those that returned a record only; when the phase ends with k
\* results, slots 1..k of the accumulator list hold them in that order,
\* every slot beyond k holds the accumulator it held before the phase, and
\* the list is max(k, its previous length) long.
C22_FoldPhaseUpdateRule ==
    [][ \A g \in DOMAIN grp :
          LET me == grp[g]
              after == grp'[g]
              k == Len(me.new_results)
          IN /\ (me.pc = "foldwait" /\ after.pc = "foldwait") =>
                   \/ after.new_results = me.new_results
                   \/ /\ Len(after.new_results) = k + 1
                      /\ SubSeq(after.new_results, 1, k) = me.new_results
                      /\ \E t \in DOMAIN me.tasks :
                            after.new_results[k + 1].lane = me.tasks[t].lane
             /\ (me.pc = "foldwait" /\ after.pc # "foldwait") =>
                   /\ Len(after.fold_results) = Max2(k, Len(me.fold_results))
                   /\ \A i \in 1 .. k : after.fold_results[i] = me.new_results[i]
                   /\ \A i \in (k + 1) .. Len(me.fold_results) :
                         after.fold_results[i] = me.fold_results[i] ]_vars
\* a phase of two lanes ended with the result of lane 1 ahead of the result
\* of lane 0, and the next phase, of one task, replaced slot 1 and left
\* slot 2 as it was
C22_Witness ==
    \E g \in DOMAIN grp :
       /\ grp[g].pc = "recalc"
       /\ Len(grp[g].fold_results) = 2
       /\ BagCardinality(grp[g].fold_results[1].lin) = 2
       /\ BagCardinality(grp[g].fold_results[2].lin) = 1
       /\ grp[g].fold_results[2].lane = 0
       /\ grp[g].remaining_items = <<>>

\* C23: every task a fold phase submits has a non-empty batch: no model
\* call, fold or batch reduce, is made for an empty list of records.
C23_LaneTasksHaveRecords ==
    \A g \in DOMAIN grp : \A t \in DOMAIN grp[g].tasks :
       grp[g].tasks[t].kind = "fold" => grp[g].tasks[t].batch # <<>>

\* every input record of group g, once
GroupLin(g) == BatchLin(grouped_data[g].items)
RECURSIVE TasksLin(_)
\* the records the tasks of a pool are working on: their batches and the
\* records that went into the accumulators they were handed
TasksLin(tasks) ==
    IF tasks = <<>> THEN EmptyBag
    ELSE BatchLin(Head(tasks).batch) (+) SumLin(Head(tasks).accs) (+) TasksLin(Tail(tasks))
\* the records group g holds at this point of its fold-merge execution: in
\* its accumulators (those a running fold phase has not handed to a task),
\* in the results collected so far, in the tasks in flight and in remaining
HeldLin(g) ==
    LET me == grp[g]
    IN BatchLin(me.remaining_items) (+) TasksLin(me.tasks) (+) SumLin(me.new_results)
         (+) (CASE me.pc \in {"loop", "recalc", "reestimate", "final"} -> SumLin(me.fold_results)
                [] me.pc = "foldwait" ->
                     SumLin(Drop(me.fold_results, Len(me.new_results) + Len(me.tasks)))
                [] OTHER -> EmptyBag)

\* C24: in the parallel fold-merge engine, as long as no fold and no merge
\* of the group returned absent, the accumulators, the tasks in flight and
\* remaining hold every input record of the group exactly once, whatever
\* the order in which the tasks complete (so the lineages are pairwise
\* disjoint and, with remaining, partition the group); the final
\* accumulator holds every record of the group exactly once.
C24_FoldMergeCoversGroupOnce ==
    \A g \in DOMAIN grp :
       (config.merge_prompt /\ ~grp[g].absent_step) =>
          /\ grp[g].pc \in {"loop", "foldwait", "mergewait", "recalc", "reestimate", "final",
                          "finalwait"}
                => HeldLin(g) = GroupLin(g)
          /\ (\/ grp[g].pc \in {"post", "done"}
               \/ (grp[g].pc = "collected" /\ exec_pc # "raised"))
                => /\ grp[g].result # None
                   /\ grp[g].result[1].lin = GroupLin(g)
\* a group of four records ended after a final merge, more than
\* min_samples merges having been timed by then
C24_Witness ==
    \E g \in DOMAIN grp :
       /\ config.merge_prompt /\ ~grp[g].absent_step
       /\ Ended(g)
       /\ Len(grouped_data[g].items) = 4
       /\ grp[g].merge_rounds # <<>>
       /\ Len(merge_times) > min_samples
       /\ grp[g].result[1].lin = GroupLin(g)

\* C25: after a fold phase a single-pass merge is made exactly when the
\* merge window holds fewer than min_samples samples and the group has at
\* least merge_batch_size accumulators, whatever the merge_time override;
\* its tasks take the contiguous chunks of merge_batch_size accumulators,
\* and when it is in, the accumulator list is replaced by the results that
\* are not absent.
C25_EarlyMergeRule ==
    [][\A g \in DOMAIN grp \cap DOMAIN grp' :
         /\ (grp[g].pc = "foldwait" /\ grp'[g].pc # "foldwait") =>
               LET fr == grp'[g].fold_results
                   m == config.merge_batch_size
               IN /\ grp'[g].pc = "mergewait"
                        <=> (Len(merge_times) < 5 /\ Len(fr) >= m)
                  /\ grp'[g].pc = "mergewait" =>
                        /\ Len(grp'[g].tasks) = CeilDiv(Len(fr), m)
                        /\ \A i \in DOMAIN grp'[g].tasks :
                              /\ grp'[g].tasks[i].kind = "merge"
                              /\ grp'[g].tasks[i].accs
                                   = SubSeq(fr, (i - 1) * m + 1, Min2(i * m, Len(fr)))
         /\ (grp[g].pc = "mergewait" /\ grp'[g].pc # "mergewait") =>
               /\ grp'[g].fold_results = grp[g].new_results
               /\ Len(grp'[g].fold_results)
                    <= CeilDiv(Len(grp[g].fold_results), config.merge_batch_size)
               /\ ~grp'[g].absent_step =>
                     Len(grp'[g].fold_results)
                       = CeilDiv(Len(grp[g].fold_results), config.merge_batch_size)
      ]_vars
\* under a merge_time override, the first fold phase of a group with
\* fold_batch_size 1 was followed by a single-pass merge: an accumulator of
\* the replaced list holds two records
C25_Witness ==
    \E g \in DOMAIN grp :
       /\ config.merge_time # Absent
       /\ config.fold_batch_size = 1
       /\ grp[g].pc = "recalc"
       /\ grp[g].estimates = 1
       /\ grp[g].remaining_items # <<>>
       /\ \E i \in DOMAIN grp[g].fold_results :
             BagCardinality(grp[g].fold_results[i].lin) >= 2

\* C26: within one group the lane count keeps its initial value while the
\* re-estimates still use a placeholder timing; it changes at most once, at
\* the first re-estimate that uses no placeholder; after an estimate
\* without placeholder (the initial one or the adopted one) the lane count
\* is neither recomputed nor changed.
C26_LaneCountAdoptedOnce ==
    [][\A g \in DOMAIN grp \cap DOMAIN grp' :
         grp[g].estimates >= 1 =>
            /\ grp'[g].num_parallel_folds # grp[g].num_parallel_folds =>
                  /\ grp[g].pc = "reestimate"
                  /\ grp[g].used_default_times
                  /\ ~grp'[g].used_default_times
                  /\ Len(grp[g].lane_values) = 1
            /\ ~grp[g].used_default_times =>
                  /\ ~grp'[g].used_default_times
                  /\ grp'[g].estimates = grp[g].estimates
                  /\ grp'[g].num_parallel_folds = grp[g].num_parallel_folds
            /\ Len(grp'[g].lane_values) <= 2
      ]_vars
\* a group whose initial estimate and a re-estimate used a placeholder, and
\* whose next re-estimate used none and gave another lane count
C26_Witness ==
    \E g \in DOMAIN grp :
       /\ grp[g].estimates >= 3
       /\ Len(grp[g].lane_values) = 2
       /\ grp[g].lane_values[1] # grp[g].lane_values[2]
       /\ grp[g].num_parallel_folds = grp[g].lane_values[2]
       /\ ~grp[g].used_default_times

\* the tasks of a list whose call has returned
CallsEnded(tasks) == Cardinality({t \in DOMAIN tasks : tasks[t].done})
\* C27: every fold call appends one duration sample to the fold window and
\* every merge call one to the merge window, whether or not its output
\* passes validation, a lane's first fold (no accumulator yet) and batch 0
\* of an incremental reduction included.
C27_EveryCallIsTimed ==
    [][\A g \in DOMAIN grp \cap DOMAIN grp' :
         /\ (grp[g].pc = "foldwait" /\ CallsEnded(grp'[g].tasks) > CallsEnded(grp[g].tasks)) =>
               \E d \in FoldDurations : fold_times' = DequeAppend(fold_times, d)
         /\ (grp[g].pc = "incr" /\ Len(grp'[g].calls) > Len(grp[g].calls)) =>
               \E d \in FoldDurations : fold_times' = DequeAppend(fold_times, d)
         /\ (grp[g].pc \in {"mergewait", "finalwait"}
               /\ CallsEnded(grp'[g].tasks) > CallsEnded(grp[g].tasks)) =>
               \E d \in MergeDurations : merge_times' = DequeAppend(merge_times, d)
      ]_vars

\* the tasks of group g in flight are all of one kind
TasksAllOf(g, kind) == \A t \in DOMAIN grp[g].tasks : grp[g].tasks[t].kind = kind
\* C28: within one group the rounds do not overlap.  While a fold phase
\* runs only its fold tasks are in flight, while a single-pass merge or a
\* round of the final merge runs only its merge tasks are, and between
\* phases nothing is; the final merge runs only when remaining is empty;
\* and tasks are submitted only when every task submitted before them has
\* completed.
C28_RoundBarrier ==
    /\ [](\A g \in DOMAIN grp :
            /\ grp[g].pc = "foldwait" => TasksAllOf(g, "fold")
            /\ grp[g].pc \in {"mergewait", "finalwait"} => TasksAllOf(g, "merge")
            /\ grp[g].pc \notin {"foldwait", "mergewait", "finalwait"} => grp[g].tasks = <<>>
            /\ grp[g].pc \in {"final", "finalwait"} => grp[g].remaining_items = <<>>)
    /\ [][\A g \in DOMAIN grp \cap DOMAIN grp' :
            (/\ grp'[g].tasks # grp[g].tasks
             /\ ~\E t \in DOMAIN grp[g].tasks :
                   \/ grp[g].tasks[t].done /\ grp'[g].tasks = RemoveAt(grp[g].tasks, t)
                   \/ /\ ~grp[g].tasks[t].done
                      /\ DOMAIN grp'[g].tasks = DOMAIN grp[g].tasks
                      /\ grp'[g].tasks[t].done
                      /\ \A u \in DOMAIN grp[g].tasks \ {t} :
                            grp'[g].tasks[u] = grp[g].tasks[u])
               => grp[g].tasks = <<>>
         ]_vars
\* the second round of a final merge is running, after fold phases and a
\* first round that are over
C28_Witness ==
    \E g \in DOMAIN grp :
       /\ grp[g].pc = "finalwait"
       /\ Len(grp[g].merge_rounds) >= 2
       /\ grp[g].tasks # <<>>
       /\ grp[g].remaining_items = <<>>

\* C29: with an accepted configuration and positive timings the fold-merge
\* execution of every group ends, for merge_batch_size 1 and for every
\* pattern of absent fold and merge results: a group that entered the
\* fold loop leaves _parallel_fold_and_merge; every fold phase takes
\* records off remaining; every round of the final merge shortens the
\* accumulator list; and with merge_batch_size 1 the list never holds more
\* than one accumulator, so the final merge makes no round.
C29_FoldMergeTerminates ==
    /\ \A g \in 1 .. MaxKey :
          (g \in DOMAIN grp /\ grp[g].pc = "loop")
             ~> (g \in DOMAIN grp /\ grp[g].pc \in {"post", "done", "collected"})
    /\ [][\A g \in DOMAIN grp \cap DOMAIN grp' :
            /\ (grp[g].pc = "loop" /\ grp'[g].pc = "foldwait") =>
                  Len(grp'[g].remaining_items) < Len(grp[g].remaining_items)
            /\ (grp[g].pc = "finalwait" /\ grp'[g].pc = "final") =>
                  Len(grp'[g].fold_results) < Len(grp[g].fold_results)
         ]_vars
    /\ [](config.merge_batch_size = 1 =>
            \A g \in DOMAIN grp : /\ Len(grp[g].fold_results) <= 1
                                   /\ grp[g].merge_rounds = <<>>)
\* a group of three records ended under merge_batch_size 1 although one of
\* its steps returned absent
C29_Witness ==
    \E g \in DOMAIN grp :
       /\ config.merge_batch_size = 1
       /\ grp[g].pc \in {"post", "done", "collected"}
       /\ grp[g].absent_step
       /\ Len(grouped_data[g].items) >= 3
       /\ grp[g].remaining_items = <<>>

RECURSIVE MaxOf(_)
\* the largest element of a non-empty sequence of numbers
MaxOf(s) == IF Len(s) = 1 THEN s[1] ELSE Max2(Head(s), MaxOf(Tail(s)))
\* C30: during a group's fold-merge execution the number of lane
\* accumulators is at most the largest lane count in use so far for the
\* group and at most the number of fold batches of the group.
C30_AccumulatorsBounded ==
    \A g \in DOMAIN grp :
       grp[g].lane_values # <<>> =>
          /\ Len(grp[g].fold_results) <= MaxOf(grp[g].lane_values)
          /\ Len(grp[g].fold_results)
               <= CeilDiv(Len(grp[g].group_list), config.fold_batch_size)

\* C31: over the lifetime of an operation instance, across groups and
\* across calls of execute(), telemetry is monotone: once get_fold_time or
\* get_merge_time gives a value that is not the placeholder it never gives
\* the placeholder again, and once the merge window holds 5 samples it
\* keeps holding at least 5 and no group starts a single-pass merge.
C31_TelemetryMonotone ==
    [][/\ ~get_fold_time(config, fold_times).default
            => ~get_fold_time(config', fold_times').default
       /\ ~get_merge_time(config, merge_times).default
            => ~get_merge_time(config', merge_times').default
       /\ Len(merge_times) >= 5 =>
            /\ Len(merge_times') >= 5
            /\ \A g \in DOMAIN grp' :
                  grp'[g].pc = "mergewait" => (g \in DOMAIN grp /\ grp[g].pc = "mergewait")
      ]_vars
\* without a merge_time override and from empty windows, calls of
\* execute() have filled the merge window to 5 samples, and a group then
\* ended a fold phase with at least merge_batch_size accumulators, which
\* it keeps as the folds produced them
C31_Witness ==
    \E g \in DOMAIN grp :
       /\ config.merge_time = Absent
       /\ Len(merge_times) >= 5
       /\ ~get_merge_time(config, merge_times).default
       /\ grp[g].pc = "recalc"
       /\ Len(grp[g].fold_results) >= config.merge_batch_size
       /\ \A i \in DOMAIN grp[g].fold_results : grp[g].fold_results[i].lane # Absent

\* the input records whose reduce key is key, in input order
RecordsWithKey(data, key) ==
    LET HasKey(r) == r.rec[RK] = key
    IN SelectSeq(data, HasKey)
\* C32: the input projection is applied per group, after grouping, and
\* leaves the grouping as it is without input.schema, also when the reduce
\* key is not in input.schema: one group per key of the input, in ascending
\* order of keys, holding the input records of that key in input order;
\* a group task that has not started holds the records as they came; the
\* records a started group hands to its strategy hold exactly the fields
\* of input.schema the input record has, with the input record's values,
\* a record that lacks a field being kept without it.
C32_ProjectionPerGroup ==
    exec_pc # "idle" =>
       /\ {grouped_data[g].key : g \in DOMAIN grp} = {input_data[i].rec[RK] : i \in DOMAIN input_data}
       /\ \A g, h \in DOMAIN grp : g < h => grouped_data[g].key < grouped_data[h].key
       /\ \A g \in DOMAIN grp :
             LET orig == RecordsWithKey(input_data, grouped_data[g].key)
                 gl == grp[g].group_list
             IN /\ grp[g].key = grouped_data[g].key
                /\ grouped_data[g].items = orig
                /\ Len(gl) = Len(orig)
                /\ \A j \in DOMAIN gl :
                      /\ gl[j].id = orig[j].id
                      /\ IF grp[g].pc \in {"queued", "start"} \/ config.input_schema = {}
                         THEN gl[j].rec = orig[j].rec
                         ELSE /\ DOMAIN gl[j].rec = DOMAIN orig[j].rec \cap config.input_schema
                              /\ \A f \in DOMAIN gl[j].rec : gl[j].rec[f] = orig[j].rec[f]
\* input.schema holds x only, not the reduce key; the input made two
\* groups; among the records of the started groups one is projected to x
\* and one, which had no x, is kept with no field at all
C32_Witness ==
    /\ config.input_schema = {XField}
    /\ Len(grp) = 2
    /\ \E g, h \in DOMAIN grp :
          /\ grp[g].pc \notin {"queued", "start"}
          /\ grp[h].pc \notin {"queued", "start"}
          /\ \E i \in DOMAIN grp[g].group_list, j \in DOMAIN grp[h].group_list :
                /\ DOMAIN grp[g].group_list[i].rec = {XField}
                /\ DOMAIN grp[h].group_list[j].rec = {}
                /\ DOMAIN grouped_data[h].items[j].rec = {RK}

\* ------------------------------------------------- the lock-level view
\* The accesses to the two windows, one step at a time, by threads that call
\* the five places of the code that touch a window: each thread enters a
\* call, begins its access (taking self.lock where the code does), makes
\* it, and leaves (releasing the lock).
LockThreads == 1 .. MaxLockThreads
LockOps == {"get_fold_time", "get_merge_time", "_update_fold_time", "_update_merge_time",
            "merge_phase_test"}
\* the calls whose access is inside "with self.lock" (lines 484, 499, 511, 521);
\* the test of line 315 reads len(self.merge_times) as it is
TakesLock(op) == op # "merge_phase_test"
IdleThread == [op |-> "none", pc |-> "idle", seen |-> 0]

InitLock ==
    /\ config \in {c \in Configs : /\ PlainRecords(c) /\ c.merge_prompt
                                   /\ c.fold_batch_size = 1 /\ c.merge_batch_size = 2}
    /\ llm_extra = {}
    /\ \E n \in PriorSamples :
          /\ fold_times = Prefill(n, CHOOSE d \in FoldDurations : TRUE)
          /\ merge_times = Prefill(n, CHOOSE d \in MergeDurations : TRUE)
    /\ exec_pc = "idle"
    /\ input_data = <<>>
    /\ grouped_data = <<>>
    /\ grp = <<>>
    /\ results = <<>>
    /\ total_cost = 0
    /\ spent = 0
    /\ lock = 0
    /\ thr = [t \in LockThreads |-> IdleThread]

\* a thread enters one of the calls; get_fold_time and get_merge_time return
\* the override at once when one is configured (lines 482-483, 497-498)
Call(t, op) ==
    /\ thr[t].pc = "idle"
    /\ op = "_update_fold_time" => Len(fold_times) < min_samples + MaxLockSamples
    /\ op = "_update_merge_time" => Len(merge_times) < min_samples + MaxLockSamples
    /\ thr' = [thr EXCEPT ![t] =
                 IF \/ (op = "get_fold_time" /\ config.fold_time # Absent)
                    \/ (op = "get_merge_time" /\ config.merge_time # Absent)
                 THEN [op |-> "none", pc |-> "idle",
                       seen |-> IF op = "get_fold_time" THEN config.fold_time
                                ELSE config.merge_time]
                 ELSE [op |-> op, pc |-> "enter", seen |-> 0]]
    /\ UNCHANGED <<lock, opvars>>

\* "with self.lock:" is entered: the thread waits until the lock is free
Acquire(t) ==
    /\ thr[t].pc = "enter"
    /\ TakesLock(thr[t].op)
    /\ lock = 0
    /\ lock' = t
    /\ thr' = [thr EXCEPT ![t].pc = "access"]
    /\ UNCHANGED opvars

\* line 315 reaches len(self.merge_times) without taking the lock
ReachUnlocked(t) ==
    /\ thr[t].pc = "enter"
    /\ ~TakesLock(thr[t].op)
    /\ thr' = [thr EXCEPT ![t].pc = "access"]
    /\ UNCHANGED <<lock, opvars>>

\* the access itself: an append (lines 512, 522), or a read of the length and
\* of the samples (lines 485-486, 500-501, 315)
Access(t) ==
    /\ thr[t].pc = "access"
    /\ \E d \in FoldDurations, e \in MergeDurations :
          /\ fold_times' = IF thr[t].op = "_update_fold_time"
                           THEN DequeAppend(fold_times, d) ELSE fold_times
          /\ merge_times' = IF thr[t].op = "_update_merge_time"
                            THEN DequeAppend(merge_times, e) ELSE merge_times
    /\ thr' = [thr EXCEPT ![t] =
                 [op |-> IF TakesLock(@.op) THEN @.op ELSE "none",
                  pc |-> IF TakesLock(@.op) THEN "exit" ELSE "idle",
                  seen |-> CASE @.op = "get_fold_time" -> Len(fold_times)
                             [] @.op \in {"get_merge_time", "merge_phase_test"} -> Len(merge_times)
                             [] OTHER -> 0]]
    /\ UNCHANGED <<lock, input_data, config, llm_extra, exec_pc, grouped_data, grp, results,
                   total_cost, spent>>

\* the "with" block is left
Release(t) ==
    /\ thr[t].pc = "exit"
    /\ lock = t
    /\ lock' = 0
    /\ thr' = [thr EXCEPT ![t] = [@ EXCEPT !.op = "none", !.pc = "idle"]]
    /\ UNCHANGED opvars

NextLock ==
    \/ \E t \in LockThreads, op \in LockOps : Call(t, op)
    \/ \E t \in LockThreads : Acquire(t)
    \/ \E t \in LockThreads : ReachUnlocked(t)
    \/ \E t \in LockThreads : Access(t)
    \/ \E t \in LockThreads : Release(t)
SpecLock == InitLock /\ [][NextLock]_vars

\* C6: every read and every update of a telemetry window, its length
\* included, is made by a thread that holds the operation's lock.
C6_WindowAccessHoldsLock ==
    \A t \in DOMAIN thr : thr[t].pc = "access" => lock = t

====
